---- MODULE Spec2Model ----
(***************************************************************************)
(* Model of extract_players_from_text (getimport.py): the recovery of a    *)
(* JSON array from the raw output of the language model, the six parse     *)
(* attempts, and the normalization / validation / two-pass deduplication   *)
(* of the parsed player records.                                           *)
(*                                                                         *)
(* A Python str is a sequence of one-character strings.  Positions are     *)
(* 0-based as in Python: At(s, i) is s[i:i+1].  Backslash escapes,         *)
(* exponent notation and the NaN / Infinity literals are outside the       *)
(* alphabet of the texts drawn here; the character "~" stands for the      *)
(* backquote of a code fence.                                              *)
(***************************************************************************)
EXTENDS Integers, Sequences, FiniteSets, TLC

(***************************************************************************)
(* Characters and str methods                                              *)
(***************************************************************************)
Whitespace == {" ", "\n", "\t"}

\* the backquote character of a code fence, written "~" here
Backquote == "~"

Digits == <<"0", "1", "2", "3", "4", "5", "6", "7", "8", "9">>

DigitSet == {Digits[k] : k \in 1..10}

UpperCase ==
  <<"A", "B", "C", "D", "E", "F", "G", "H", "I", "J", "K", "L", "M",
    "N", "O", "P", "Q", "R", "S", "T", "U", "V", "W", "X", "Y", "Z">>

LowerCase ==
  <<"a", "b", "c", "d", "e", "f", "g", "h", "i", "j", "k", "l", "m",
    "n", "o", "p", "q", "r", "s", "t", "u", "v", "w", "x", "y", "z">>

Letters == {UpperCase[k] : k \in 1..26} \cup {LowerCase[k] : k \in 1..26}

IdentStart == Letters \cup {"_"}

IdentChar == IdentStart \cup DigitSet

At(s, i) == IF i >= 0 /\ i < Len(s) THEN s[i + 1] ELSE ""

\* s[a:b]
Slice(s, a, b) == SubSeq(s, a + 1, b)

DigitVal(c) == (CHOOSE k \in 1..10 : Digits[k] = c) - 1

LowerChar(c) ==
  IF \E k \in 1..26 : UpperCase[k] = c
    THEN LowerCase[CHOOSE k \in 1..26 : UpperCase[k] = c]
    ELSE c

\* str.lower()
Lower(s) == [k \in 1..Len(s) |-> LowerChar(s[k])]

\* the end of the run of characters of a set that starts at position i
RunEnd(s, i, set) ==
  IF i >= Len(s) THEN i
  ELSE CHOOSE e \in i..Len(s) : At(s, e) \notin set /\ \A m \in i..(e - 1) : At(s, m) \in set

\* the start of the run of characters of a set that ends before position e
RunStart(s, e, set) ==
  CHOOSE b \in 0..e : At(s, b - 1) \notin set /\ \A m \in b..(e - 1) : At(s, m) \in set

\* the k-th smallest element of a set of integers
Nth(set, k) == CHOOSE x \in set : Cardinality({y \in set : y < x}) = k - 1

\* str.rstrip()
RStrip(s) == Slice(s, 0, RunStart(s, Len(s), Whitespace))

\* str.strip()
Strip(s) ==
  LET a == RunEnd(s, 0, Whitespace)
  IN  IF a = Len(s) THEN <<>> ELSE Slice(s, a, RunStart(s, Len(s), Whitespace))

\* str.split(): the maximal runs of non-whitespace characters
Split(s) ==
  LET starts == {b \in 0..(Len(s) - 1) :
                   At(s, b) \notin Whitespace /\ (b = 0 \/ At(s, b - 1) \in Whitespace)}
      end(b) == CHOOSE e \in b..Len(s) :
                  (e = Len(s) \/ At(s, e) \in Whitespace)
                  /\ \A m \in b..(e - 1) : At(s, m) \notin Whitespace
  IN  [k \in 1..Cardinality(starts) |-> Slice(s, Nth(starts, k), end(Nth(starts, k)))]

\* str.split(sep) for a one-character separator
SplitOn(s, sep) ==
  LET cuts == {c \in 0..(Len(s) - 1) : At(s, c) = sep} \cup {-1, Len(s)}
  IN  [k \in 1..(Cardinality(cuts) - 1) |-> Slice(s, Nth(cuts, k) + 1, Nth(cuts, k + 1))]

\* sep.join(parts)
RECURSIVE Join(_, _)
Join(parts, sep) ==
  IF parts = <<>> THEN <<>>
  ELSE IF Len(parts) = 1 THEN parts[1]
  ELSE parts[1] \o sep \o Join(Tail(parts), sep)

\* str.isdigit()
IsDigit(s) == s # <<>> /\ \A k \in 1..Len(s) : s[k] \in DigitSet

\* str.count(c)
Count(s, c) == Cardinality({k \in 1..Len(s) : s[k] = c})

\* str.find(c), str.rfind(c): -1 when absent
Find(s, c) ==
  IF \E k \in 1..Len(s) : s[k] = c
    THEN (CHOOSE k \in 1..Len(s) : s[k] = c /\ \A m \in 1..(k - 1) : s[m] # c) - 1
    ELSE -1

RFind(s, c) ==
  IF \E k \in 1..Len(s) : s[k] = c
    THEN (CHOOSE k \in 1..Len(s) : s[k] = c /\ \A m \in (k + 1)..Len(s) : s[m] # c) - 1
    ELSE -1

\* str.replace(a, b) for one-character a and b
Replace(s, a, b) == [k \in 1..Len(s) |-> IF s[k] = a THEN b ELSE s[k]]

\* the decimal digits of a natural number
RECURSIVE NatStr(_)
NatStr(n) == IF n < 10 THEN <<Digits[n + 1]>> ELSE NatStr(n \div 10) \o <<Digits[(n % 10) + 1]>>

\* str(n) for an int
IntStr(n) == IF n < 0 THEN <<"-">> \o NatStr(0 - n) ELSE NatStr(n)

RECURSIVE DigitsVal(_, _)
DigitsVal(s, acc) ==
  IF s = <<>> THEN acc ELSE DigitsVal(Tail(s), 10 * acc + DigitVal(Head(s)))

RECURSIVE Pow10(_)
Pow10(k) == IF k = 0 THEN 1 ELSE 10 * Pow10(k - 1)

\* the characters of the texts, in code point order
CodeOrder ==
  <<"\t", "\n", " ", "\"", "'", ",", "-", ".">> \o Digits \o <<":">> \o UpperCase
    \o <<"[", "]", "_", Backquote>> \o LowerCase \o <<"{", "}">>

Ord(c) == CHOOSE k \in 1..Len(CodeOrder) : CodeOrder[k] = c

\* a < b for two str
RECURSIVE StrLess(_, _)
StrLess(a, b) ==
  IF b = <<>> THEN FALSE
  ELSE IF a = <<>> THEN TRUE
  ELSE IF Head(a) = Head(b) THEN StrLess(Tail(a), Tail(b))
  ELSE Ord(Head(a)) < Ord(Head(b))

\* sorted(parts) for a list of str
RECURSIVE InsertSorted(_, _)
InsertSorted(sorted, x) ==
  IF sorted = <<>> THEN <<x>>
  ELSE IF StrLess(x, Head(sorted)) THEN <<x>> \o sorted
  ELSE <<Head(sorted)>> \o InsertSorted(Tail(sorted), x)

RECURSIVE Sorted(_)
Sorted(parts) ==
  IF parts = <<>> THEN <<>> ELSE InsertSorted(Sorted(SubSeq(parts, 1, Len(parts) - 1)), parts[Len(parts)])

(***************************************************************************)
(* Python values: None, bool, int, float, str, list, dict.  A float is     *)
(* kept as its scaled integer n and its fraction digits s (1500.7 is       *)
(* n = 15007, s = "7"); a dict is the sequence of its (key, value) items   *)
(* in insertion order.                                                     *)
(***************************************************************************)
Val(t, n, s, a, o) == [t |-> t, n |-> n, s |-> s, a |-> a, o |-> o]

None == Val("none", 0, <<>>, <<>>, <<>>)

PyInt(n) == Val("int", n, <<>>, <<>>, <<>>)

PyBool(b) == Val("bool", IF b THEN 1 ELSE 0, <<>>, <<>>, <<>>)

PyFloat(n, frac) == Val("float", n, frac, <<>>, <<>>)

PyStr(s) == Val("str", 0, s, <<>>, <<>>)

PyList(a) == Val("list", 0, <<>>, a, <<>>)

PyDict(o) == Val("dict", 0, <<>>, <<>>, o)

\* bool(v)
Truthy(v) ==
  CASE v.t = "none" -> FALSE
    [] v.t \in {"int", "bool", "float"} -> v.n # 0
    [] v.t = "str" -> v.s # <<>>
    [] v.t = "list" -> v.a # <<>>
    [] v.t = "dict" -> v.o # <<>>

\* a == b of Python, where True == 1 and 0.0 == 0
PyEq(v, w) ==
  IF v.t \in {"int", "bool", "float"} /\ w.t \in {"int", "bool", "float"}
    THEN v.n * Pow10(Len(w.s)) = w.n * Pow10(Len(v.s))
    ELSE v = w

\* key in d
HasKey(d, key) == \E k \in 1..Len(d.o) : d.o[k][1] = key

\* d.get(key): None when the key is missing
Get(d, key) ==
  IF HasKey(d, key) THEN d.o[CHOOSE k \in 1..Len(d.o) : d.o[k][1] = key][2] ELSE None

\* d.get(key, default)
GetDefault(d, key, default) == IF HasKey(d, key) THEN Get(d, key) ELSE default

\* d[key] = v: a repeated key keeps its place and takes the last value
Put(o, key, v) ==
  IF \E k \in 1..Len(o) : o[k][1] = key
    THEN [k \in 1..Len(o) |-> IF o[k][1] = key THEN <<key, v>> ELSE o[k]]
    ELSE Append(o, <<key, v>>)

\* a or b
Or(a, b) == IF Truthy(a) THEN a ELSE b

\* str(v) of a scalar; of a list or dict only that it is a bracketed text
ToStr(v) ==
  CASE v.t = "none" -> <<"N", "o", "n", "e">>
    [] v.t = "bool" -> IF v.n = 1 THEN <<"T", "r", "u", "e">> ELSE <<"F", "a", "l", "s", "e">>
    [] v.t = "int" -> IntStr(v.n)
    [] v.t = "float" ->
         LET m == IF v.n < 0 THEN 0 - v.n ELSE v.n
             scale == Pow10(Len(v.s))
         IN  (IF v.n < 0 THEN <<"-">> ELSE <<>>) \o NatStr(m \div scale) \o <<".">> \o v.s
    [] v.t = "str" -> v.s
    [] v.t = "list" -> <<"[", "]">>
    [] v.t = "dict" -> <<"{", "}">>

\* int(v): [ok, n]; ok is false where Python raises ValueError or TypeError
ToInt(v) ==
  CASE v.t \in {"int", "bool"} -> [ok |-> TRUE, n |-> v.n]
    [] v.t = "float" ->
         LET scale == Pow10(Len(v.s))
         IN  [ok |-> TRUE, n |-> IF v.n < 0 THEN 0 - ((0 - v.n) \div scale) ELSE v.n \div scale]
    [] v.t = "str" ->
         LET body == Strip(v.s)
             signed == body # <<>> /\ Head(body) \in {"-", "+"}
             digits == IF signed THEN Tail(body) ELSE body
         IN  IF IsDigit(digits)
               THEN [ok |-> TRUE,
                     n |-> IF signed /\ Head(body) = "-"
                             THEN 0 - DigitsVal(digits, 0) ELSE DigitsVal(digits, 0)]
               ELSE [ok |-> FALSE, n |-> 0]
    [] OTHER -> [ok |-> FALSE, n |-> 0]

(***************************************************************************)
(* json.loads: the result of a scan is [ok, v, end] or, for a              *)
(* JSONDecodeError, [ok = FALSE, msg, pos].                                *)
(***************************************************************************)
Parsed(v, end) == [ok |-> TRUE, v |-> v, end |-> end, msg |-> "", pos |-> 0]

DecodeError(msg, pos) == [ok |-> FALSE, v |-> None, end |-> 0, msg |-> msg, pos |-> pos]

SkipWs(s, i) == RunEnd(s, i, Whitespace)

DigitRun(s, i) == RunEnd(s, i, DigitSet)

Matches(s, i, word) == i + Len(word) <= Len(s) /\ Slice(s, i, i + Len(word)) = word

\* NUMBER_RE at idx: -?(0|[1-9][0-9]*) then an optional .[0-9]+
ScanNumber(s, idx) ==
  LET neg == At(s, idx) = "-"
      b == IF neg THEN idx + 1 ELSE idx
      e == IF At(s, b) = "0" THEN b + 1 ELSE DigitRun(s, b)
      magnitude == DigitsVal(Slice(s, b, e), 0)
      f == IF At(s, e) = "." THEN DigitRun(s, e + 1) ELSE e
      isFloat == f > e + 1
      frac == IF isFloat THEN Slice(s, e + 1, f) ELSE <<>>
      scaled == magnitude * Pow10(Len(frac)) + DigitsVal(frac, 0)
  IN  IF e = b THEN DecodeError("Expecting value", idx)
      ELSE IF isFloat THEN Parsed(PyFloat(IF neg THEN 0 - scaled ELSE scaled, frac), f)
      ELSE Parsed(PyInt(IF neg THEN 0 - magnitude ELSE magnitude), e)

\* scanstring from the character after the opening quote
ScanString(s, begin, end) ==
  LET stops == {e \in end..(Len(s) - 1) : At(s, e) \in {"\"", "\n", "\t"}}
      stop == Nth(stops, 1)
  IN  IF stops = {} THEN DecodeError("Unterminated string starting at", begin)
      ELSE IF At(s, stop) = "\"" THEN Parsed(PyStr(Slice(s, begin + 1, stop)), stop + 1)
      ELSE DecodeError("Invalid control character at", stop)

RECURSIVE ScanOnce(_, _)
RECURSIVE ArrayItems(_, _, _)
RECURSIVE ObjectItems(_, _, _)

\* JSONArray after the opening bracket
ParseArray(s, end) ==
  LET e == SkipWs(s, end)
  IN  IF At(s, e) = "]" THEN Parsed(PyList(<<>>), e + 1) ELSE ArrayItems(s, e, <<>>)

ArrayItems(s, end, acc) ==
  LET r == ScanOnce(s, end)
      e == SkipWs(s, r.end)
  IN  IF ~r.ok THEN r
      ELSE IF At(s, e) = "]" THEN Parsed(PyList(Append(acc, r.v)), e + 1)
      ELSE IF At(s, e) # "," THEN DecodeError("Expecting ',' delimiter", e)
      ELSE ArrayItems(s, SkipWs(s, e + 1), Append(acc, r.v))

\* JSONObject after the opening brace
ParseObject(s, end) ==
  LET e == SkipWs(s, end)
  IN  IF At(s, e) = "}" THEN Parsed(PyDict(<<>>), e + 1)
      ELSE IF At(s, e) # "\""
        THEN DecodeError("Expecting property name enclosed in double quotes", e)
      ELSE ObjectItems(s, e + 1, <<>>)

\* one "key": value item, end being the character after the key's opening quote
ObjectItems(s, end, acc) ==
  LET key == ScanString(s, end - 1, end)
      colon == SkipWs(s, key.end)
      r == ScanOnce(s, SkipWs(s, colon + 1))
      e == SkipWs(s, r.end)
      next == SkipWs(s, e + 1)
  IN  IF ~key.ok THEN key
      ELSE IF At(s, colon) # ":" THEN DecodeError("Expecting ':' delimiter", colon)
      ELSE IF ~r.ok THEN r
      ELSE IF At(s, e) = "}" THEN Parsed(PyDict(Put(acc, key.v.s, r.v)), e + 1)
      ELSE IF At(s, e) # "," THEN DecodeError("Expecting ',' delimiter", e)
      ELSE IF At(s, next) # "\""
        THEN DecodeError("Expecting property name enclosed in double quotes", next)
      ELSE ObjectItems(s, next + 1, Put(acc, key.v.s, r.v))

\* scan_once: StopIteration is reported as "Expecting value" by every caller
ScanOnce(s, idx) ==
  LET c == At(s, idx)
  IN  CASE c = "\"" -> ScanString(s, idx, idx + 1)
        [] c = "{" -> ParseObject(s, idx + 1)
        [] c = "[" -> ParseArray(s, idx + 1)
        [] c = "n" /\ Matches(s, idx, <<"n", "u", "l", "l">>) -> Parsed(None, idx + 4)
        [] c = "t" /\ Matches(s, idx, <<"t", "r", "u", "e">>) -> Parsed(PyBool(TRUE), idx + 4)
        [] c = "f" /\ Matches(s, idx, <<"f", "a", "l", "s", "e">>) -> Parsed(PyBool(FALSE), idx + 5)
        [] OTHER -> ScanNumber(s, idx)

\* json.loads(s)
JsonLoads(s) ==
  LET r == ScanOnce(s, SkipWs(s, 0))
      end == SkipWs(s, r.end)
  IN  IF ~r.ok THEN r
      ELSE IF end # Len(s) THEN DecodeError("Extra data", end)
      ELSE r

(***************************************************************************)
(* The regular-expression steps of the recovery                            *)
(***************************************************************************)
Fence == <<Backquote, Backquote, Backquote>>

\* re.sub(pattern, repl, t) from position i on: the leftmost match, its
\* replacement, then the same from the end of that match
IsFenceJson(t, i) ==
  /\ Matches(t, i, Fence)
  /\ i + 7 <= Len(t)
  /\ Lower(Slice(t, i + 3, i + 7)) = <<"j", "s", "o", "n">>

\* re.sub(r'```json\s*', '', t, flags=re.IGNORECASE)
RECURSIVE StripJsonFences(_, _)
StripJsonFences(t, i) ==
  LET found == {m \in i..(Len(t) - 1) : IsFenceJson(t, m)}
      m == Nth(found, 1)
  IN  IF found = {} THEN Slice(t, i, Len(t))
      ELSE Slice(t, i, m) \o StripJsonFences(t, SkipWs(t, m + 7))

\* re.sub(r'```\s*', '', t)
RECURSIVE StripFences(_, _)
StripFences(t, i) ==
  LET found == {m \in i..(Len(t) - 1) : Matches(t, m, Fence)}
      m == Nth(found, 1)
  IN  IF found = {} THEN Slice(t, i, Len(t))
      ELSE Slice(t, i, m) \o StripFences(t, SkipWs(t, m + 3))

\* re.search(r'\[[\s\S]*\]', t): from the first '[' to the last ']' after it
JsonMatch(t) ==
  LET first == Find(t, "[")
      last == RFind(t, "]")
  IN  IF first # -1 /\ last > first
        THEN [found |-> TRUE, group |-> Slice(t, first, last + 1)]
        ELSE [found |-> FALSE, group |-> <<>>]

\* re.sub(r',\s*$', '', t): a comma with only whitespace after it is cut off
StripFinalComma(t) ==
  IF \E k \in 1..Len(t) : t[k] = "," /\ \A m \in (k + 1)..Len(t) : t[m] \in Whitespace
    THEN LET k == CHOOSE k \in 1..Len(t) :
                    t[k] = "," /\ \A m \in (k + 1)..Len(t) : t[m] \in Whitespace
         IN  SubSeq(t, 1, k - 1)
    ELSE t

IsTrailingComma(t, i) == At(t, i) = "," /\ At(t, SkipWs(t, i + 1)) \in {"}", "]"}

\* re.sub(r',(\s*[}\]])', r'\1', t)
RECURSIVE StripTrailingCommas(_, _)
StripTrailingCommas(t, i) ==
  LET found == {m \in i..(Len(t) - 1) : IsTrailingComma(t, m)}
      m == Nth(found, 1)
      e == SkipWs(t, m + 1)
  IN  IF found = {} THEN Slice(t, i, Len(t))
      ELSE Slice(t, i, m) \o Slice(t, m + 1, e + 1) \o StripTrailingCommas(t, e + 1)

IdentRun(t, i) == RunEnd(t, i, IdentChar)

IsBareKey(t, i) ==
  LET w == SkipWs(t, i + 1)
  IN  /\ At(t, i) \in {"{", ","}
      /\ At(t, w) \in IdentStart
      /\ At(t, SkipWs(t, IdentRun(t, w))) = ":"

\* re.sub(r'([{,]\s*)([a-zA-Z_][a-zA-Z0-9_]*)\s*:', r'\1"\2":', t)
RECURSIVE QuoteBareKeys(_, _)
QuoteBareKeys(t, i) ==
  LET found == {m \in i..(Len(t) - 1) : IsBareKey(t, m)}
      m == Nth(found, 1)
      w == SkipWs(t, m + 1)
      e == IdentRun(t, w)
      c == SkipWs(t, e)
  IN  IF found = {} THEN Slice(t, i, Len(t))
      ELSE Slice(t, i, w) \o <<"\"">> \o Slice(t, w, e) \o <<"\"", ":">>
             \o QuoteBareKeys(t, c + 1)

\* t.replace("'", '"')
SingleToDouble(t) == Replace(t, "'", "\"")

NumAttempts == 6

\* the text that parse_attempts[k - 1] hands to json.loads
Repaired(k, t) ==
  CASE k = 1 -> t
    [] k = 2 -> StripTrailingCommas(t, 0)
    [] k = 3 -> QuoteBareKeys(t, 0)
    [] k = 4 -> SingleToDouble(t)
    [] k = 5 -> CHOOSE r \in {StripTrailingCommas(u, 0) : u \in {QuoteBareKeys(t, 0)}} : TRUE
    [] k = 6 -> CHOOSE r \in {StripTrailingCommas(u, 0) :
                               u \in {QuoteBareKeys(v, 0) : v \in {SingleToDouble(t)}}} : TRUE

\* parse_attempts[k - 1](t)
parse_attempts(k, t) == CHOOSE r \in {JsonLoads(u) : u \in {Repaired(k, t)}} : TRUE

(***************************************************************************)
(* Normalization and validation of one parsed record                       *)
(***************************************************************************)
\* the keys of the parsed records and of the validated records
k_name == <<"n", "a", "m", "e">>

k_uscf_id == <<"u", "s", "c", "f", "_", "i", "d">>

k_fide_id == <<"f", "i", "d", "e", "_", "i", "d">>

k_section == <<"s", "e", "c", "t", "i", "o", "n">>

k_city == <<"c", "i", "t", "y">>

k_state == <<"s", "t", "a", "t", "e">>

k_rating == <<"r", "a", "t", "i", "n", "g">>

k_status == <<"s", "t", "a", "t", "u", "s">>

k_team == <<"t", "e", "a", "m">>

k_team_name == <<"t", "e", "a", "m", "_", "n", "a", "m", "e">>

k_school == <<"s", "c", "h", "o", "o", "l">>

k_grade == <<"g", "r", "a", "d", "e">>

k_byes == <<"b", "y", "e", "s">>

k_email == <<"e", "m", "a", "i", "l">>

k_phone == <<"p", "h", "o", "n", "e">>

k_notes == <<"n", "o", "t", "e", "s">>

k_intentional_bye_rounds == <<"i", "n", "t", "e", "n", "t", "i", "o", "n", "a", "l", "_", "b", "y", "e", "_", "r", "o", "u", "n", "d", "s">>

Active == PyStr(<<"a", "c", "t", "i", "v", "e">>)

\* line 130 without the test of the stripped name
HasNameUnstripped(player) ==
  /\ player.t = "dict"
  /\ Truthy(Get(player, k_name))

\* line 130: the records the loop does not skip
HasName(player) ==
  /\ player.t = "dict"
  /\ Truthy(Get(player, k_name))
  /\ Strip(ToStr(Get(player, k_name))) # <<>>

\* line 133
NameOf(player) == Strip(ToStr(Get(player, k_name)))

ZeroIds == {<<"0", "0", "0", "0", "0">>, <<"0", "0", "0", "0">>, <<"0">>, <<>>}

\* lines 134-138
UscfIdOf(player) ==
  LET uscf_id == Get(player, k_uscf_id)
      stripped == Strip(ToStr(uscf_id))
  IN  IF Truthy(uscf_id)
        THEN IF stripped \in ZeroIds THEN None ELSE PyStr(stripped)
        ELSE uscf_id

\* re.sub(r'[.,-]', ' ', s)
Punctuation == {".", ",", "-"}

SubPunctuation(s, chars) == [k \in 1..Len(s) |-> IF s[k] \in chars THEN " " ELSE s[k]]

\* lines 140-142
NormalizedName(name) ==
  Join(Split(SubPunctuation(Lower(Join(Split(name), <<" ">>)), Punctuation)), <<" ">>)

\* line 144
PlayerKey(name, uscf_id) ==
  IF Truthy(uscf_id)
    THEN NormalizedName(name) \o <<"|">> \o ToStr(uscf_id)
    ELSE NormalizedName(name)

PositiveDigits(s) == IsDigit(Strip(s)) /\ DigitsVal(Strip(s), 0) > 0

\* lines 149-158: [raised, value]; raised when int(byes) raises
ByeRounds(player) ==
  LET byes == Get(player, k_byes)
      keepItem(r) == PositiveDigits(ToStr(r))
      fromList == LET kept == SelectSeq(byes.a, keepItem)
                  IN  [k \in 1..Len(kept) |-> ToInt(kept[k]).n]
      keepPart(r) == PositiveDigits(r)
      fromStr == LET kept == SelectSeq(SplitOn(byes.s, ","), keepPart)
                 IN  [k \in 1..Len(kept) |-> DigitsVal(Strip(kept[k]), 0)]
      scalar == ToInt(byes)
      rounds == CASE byes.t = "list" -> fromList
                  [] byes.t = "str" -> fromStr
                  [] OTHER -> IF scalar.n > 0 THEN <<scalar.n>> ELSE <<>>
      joined == Join([k \in 1..Len(rounds) |-> IntStr(rounds[k])], <<",">>)
  IN  IF Truthy(byes) /\ ~PyEq(byes, None) /\ ~PyEq(byes, PyStr(<<"0">>)) /\ ~PyEq(byes, PyInt(0))
        THEN IF byes.t \notin {"list", "str"} /\ ~scalar.ok
               THEN [raised |-> TRUE, value |-> None]
               ELSE [raised |-> FALSE, value |-> IF rounds # <<>> THEN PyStr(joined) ELSE None]
        ELSE [raised |-> FALSE, value |-> None]

MinRating == 0

MaxRating == 3000

\* lines 160-167 without the test of line 164
RatingUnchecked(player) ==
  LET rating == Get(player, k_rating)
      n == ToInt(rating)
  IN  IF rating # None
        THEN IF n.ok THEN PyInt(n.n) ELSE None
        ELSE None

\* lines 160-167
RatingOf(player) ==
  LET rating == Get(player, k_rating)
      n == ToInt(rating)
  IN  IF rating # None
        THEN IF n.ok /\ MinRating <= n.n /\ n.n <= MaxRating THEN PyInt(n.n) ELSE None
        ELSE None

\* lines 169-174
GradeOf(player) ==
  LET grade == Get(player, k_grade)
      n == ToInt(grade)
  IN  IF grade # None
        THEN IF Strip(ToStr(grade)) \notin {<<"0">>, <<>>}
               THEN IF n.ok THEN PyInt(n.n) ELSE None
               ELSE None
        ELSE None

\* line 178
StatusOf(player) == GetDefault(player, k_status, Active)

\* line 182
FideIdOf(player) ==
  IF Truthy(Get(player, k_fide_id)) THEN PyStr(Strip(ToStr(Get(player, k_fide_id)))) ELSE None

\* line 187
TeamNameOf(player) == Or(Or(Get(player, k_team), Get(player, k_team_name)), None)

\* lines 176-192
ValidatedPlayer(player) ==
  [name |-> PyStr(NameOf(player)),
   status |-> StatusOf(player),
   section |-> Or(Get(player, k_section), None),
   rating |-> RatingOf(player),
   uscf_id |-> UscfIdOf(player),
   fide_id |-> FideIdOf(player),
   state |-> Or(Get(player, k_state), None),
   city |-> Or(Get(player, k_city), None),
   email |-> Or(Get(player, k_email), None),
   phone |-> Or(Get(player, k_phone), None),
   team_name |-> TeamNameOf(player),
   school |-> Or(Get(player, k_school), None),
   grade |-> GradeOf(player),
   intentional_bye_rounds |-> ByeRounds(player).value,
   notes |-> Or(Get(player, k_notes), None)]

LongPart(p) == Len(p) > 1

\* lines 200-204
FinalKey(player) ==
  LET name_parts == Split(SubPunctuation(Lower(player.name.s), {".", ","}))
      sorted_parts == Sorted(SelectSeq(name_parts, LongPart))
      key == Join(sorted_parts, <<" ">>)
  IN  IF Truthy(player.uscf_id) THEN key \o <<"|">> \o ToStr(player.uscf_id) ELSE key

\* a validated record given back as a parsed record
AsParsed(player) ==
  PyDict(<<
    <<k_name, player.name>>, <<k_status, player.status>>, <<k_section, player.section>>,
    <<k_rating, player.rating>>, <<k_uscf_id, player.uscf_id>>, <<k_fide_id, player.fide_id>>,
    <<k_state, player.state>>, <<k_city, player.city>>, <<k_email, player.email>>,
    <<k_phone, player.phone>>, <<k_team_name, player.team_name>>, <<k_school, player.school>>,
    <<k_grade, player.grade>>, <<k_intentional_bye_rounds, player.intentional_bye_rounds>>,
    <<k_notes, player.notes>> >>)

(***************************************************************************)
(* extract_players_from_text as a state machine                            *)
(***************************************************************************)
VARIABLES
  backend,            \* how requests.post and response.json() end
  content,            \* data["message"]["content"]
  generated_text,
  pc,                 \* the position in the function
  attempt,            \* the index of the next parse_func
  parsed_by,          \* the parse_func that returned, 0 when none did
  last_error,
  players,
  position,           \* the index of the next element of the running for loop
  validated_players,
  seen_players,
  final_players,
  final_seen,
  result,             \* the value returned
  application,        \* 1, or 2 when the normalization runs on its own output
  first_players       \* data.players of the first application

import_vars ==
  <<backend, content, generated_text, pc, attempt, parsed_by, last_error, players,
    position, validated_players, seen_players, final_players, final_seen, result,
    application, first_players>>

(***************************************************************************)
(* The programs as processes: the command line, the streams, the exit      *)
(***************************************************************************)
VARIABLES
  program,            \* the script that runs
  argv,               \* sys.argv[1:]
  step,                 \* the position in the script
  exit_status,        \* Running until the process has ended
  stdout,             \* the documents printed, in order
  stderr              \* the diagnostics printed, as a set of lines

process_vars == <<program, argv, step, exit_status, stdout, stderr>>

(***************************************************************************)
(* State of trigger_workflow.py and trigger_getimport.py                   *)
(***************************************************************************)
VARIABLES
  GITHUB_TOKEN,
  input_text,             \* the text trigger_getimport.py sends
  elapsed,
  status_requests,    \* the number of requests.get(runs_url) sent
  trigger_result,     \* result of __main__
  response,           \* the last answer to requests.post(url) and requests.get(runs_url)
  run_id,             \* the id of the run last listed, "" for None
  artifact_response,  \* the answers to the requests of get_artifact_json
  sent                \* the numbers of the other requests sent

trigger_vars ==
  <<GITHUB_TOKEN, input_text, elapsed, status_requests, trigger_result, response, run_id,
    artifact_response, sent>>

(***************************************************************************)
(* State of m.py                                                           *)
(***************************************************************************)
VARIABLES
  page,               \* the player page of the site
  browser,
  year_idx,
  row_idx,            \* the index of the next game_row
  year,
  all_games,
  game_counter

scraper_vars == <<page, browser, year_idx, row_idx, year, all_games, game_counter>>

(***************************************************************************)
(* State of test_multi_ids.py                                              *)
(***************************************************************************)
VARIABLES
  player_ids,
  outputs_dir,        \* the directory outputs/: file name |-> text
  workers,            \* the calls of scrape_player_id, by position in player_ids
  launched,           \* the number of subprocesses started, by position
  results,
  summary             \* None until create_summary has run

multi_vars == <<player_ids, outputs_dir, workers, launched, results, summary>>

other_vars == <<process_vars, trigger_vars, scraper_vars, multi_vars>>

vars == <<import_vars, other_vars>>

\* the process has not ended
Running == -1

\* last_error = None
NoError == [msg |-> "None", pos |-> -1]

NoResult == [success |-> FALSE, players |-> <<>>, count |-> -1, duplicatesRemoved |-> 0,
             error |-> [msg |-> "", last |-> NoError]]

\* {'success': False, 'error': ...}
Failure(msg, last) ==
  [success |-> FALSE, players |-> <<>>, count |-> 0, duplicatesRemoved |-> 0,
   error |-> [msg |-> msg, last |-> last]]

\* lines 210-221 with the count taken of the parsed list
SuccessCountsParsed(parsed, final) ==
  [success |-> TRUE, players |-> final, count |-> Len(parsed),
   duplicatesRemoved |-> IF Len(parsed) - Len(final) > 0 THEN Len(parsed) - Len(final) ELSE 0,
   error |-> [msg |-> "", last |-> NoError]]

\* lines 210-221; duplicatesRemoved = 0 stands for the key being absent
Success(parsed, final) ==
  [success |-> TRUE, players |-> final, count |-> Len(final),
   duplicatesRemoved |-> IF Len(parsed) - Len(final) > 0 THEN Len(parsed) - Len(final) ELSE 0,
   error |-> [msg |-> "", last |-> NoError]]

\* what lines 68-72 raise: no connection, a timeout, an error status, and a
\* malformed response body (no JSON, no 'message' key, a content of null)
BackendFailures ==
  {"ConnectionError", "Timeout", "HTTPError", "JSONDecodeError", "KeyError", "AttributeError"}

\* lines 225-230 for the exceptions of lines 68-72
BackendMessage(outcome) ==
  CASE outcome = "ConnectionError" -> "Could not connect to Ollama. Is it running?"
    [] outcome = "Timeout" -> "Ollama request timed out"
    [] outcome = "HTTPError" -> "HTTPError"
    [] outcome = "JSONDecodeError" -> "Expecting value: line 1 column 1 (char 0)"
    [] outcome = "KeyError" -> "'message'"
    [] outcome = "AttributeError" -> "'NoneType' object has no attribute 'strip'"

\* where a for loop over a list starts: its body, or what follows the loop
LoopEntry(list, body, after) == IF list = <<>> THEN after ELSE body

\* lines 68-72
Request ==
  /\ pc = "request"
  /\ UNCHANGED other_vars
  /\ IF backend = "ok"
       THEN /\ generated_text' = Strip(content)
            /\ pc' = "fences"
            /\ UNCHANGED result
       ELSE /\ result' = Failure(BackendMessage(backend), NoError)
            /\ pc' = "done"
            /\ UNCHANGED generated_text
  /\ UNCHANGED <<backend, content, attempt, parsed_by, last_error, players, position,
                 validated_players, seen_players, final_players, final_seen,
                 application, first_players>>

\* lines 77-79
CleanFences ==
  /\ pc = "fences"
  /\ UNCHANGED other_vars
  /\ generated_text' = Strip(StripFences(StripJsonFences(generated_text, 0), 0))
  /\ pc' = "isolate"
  /\ UNCHANGED <<backend, content, attempt, parsed_by, last_error, players, position,
                 validated_players, seen_players, final_players, final_seen, result,
                 application, first_players>>

\* lines 85-88
TrimToBrackets(t) ==
  LET first_bracket == Find(t, "[")
      last_bracket == RFind(t, "]")
  IN  IF first_bracket # -1 /\ last_bracket # -1 /\ last_bracket > first_bracket
        THEN Slice(t, first_bracket, last_bracket + 1)
        ELSE t

\* lines 81-88
IsolateArray ==
  /\ pc = "isolate"
  /\ UNCHANGED other_vars
  /\ LET json_match == JsonMatch(generated_text)
     IN  generated_text' =
           TrimToBrackets(IF json_match.found THEN json_match.group ELSE generated_text)
  /\ pc' = "incomplete"
  /\ UNCHANGED <<backend, content, attempt, parsed_by, last_error, players, position,
                 validated_players, seen_players, final_players, final_seen, result,
                 application, first_players>>

\* lines 91-96
CloseIncomplete(t) ==
  LET last_brace == RFind(t, "}")
      partial == StripFinalComma(RStrip(Slice(t, 0, last_brace + 1)))
  IN  IF Count(t, "[") > Count(t, "]") /\ last_brace # -1
        THEN partial \o <<"]">>
        ELSE t

HandleIncomplete ==
  /\ pc = "incomplete"
  /\ UNCHANGED other_vars
  /\ generated_text' = CloseIncomplete(generated_text)
  /\ pc' = "parse"
  /\ UNCHANGED <<backend, content, attempt, parsed_by, last_error, players, position,
                 validated_players, seen_players, final_players, final_seen, result,
                 application, first_players>>

\* lines 110-115: one turn of the loop over parse_attempts
ParseAttempt ==
  /\ pc = "parse"
  /\ UNCHANGED other_vars
  /\ \E r \in {parse_attempts(attempt, generated_text)} :
       IF r.ok
         THEN /\ players' = r.v
              /\ parsed_by' = attempt
              /\ pc' = "check"
              /\ UNCHANGED <<attempt, last_error>>
         ELSE /\ last_error' = [msg |-> r.msg, pos |-> r.pos]
              /\ attempt' = attempt + 1
              /\ pc' = IF attempt = NumAttempts THEN "check" ELSE "parse"
              /\ UNCHANGED <<players, parsed_by>>
  /\ UNCHANGED <<backend, content, generated_text, position, validated_players,
                 seen_players, final_players, final_seen, result, application,
                 first_players>>

\* lines 117-127, and the except clause of line 229 for the two ValueErrors
CheckParsed ==
  /\ pc = "check"
  /\ UNCHANGED other_vars
  /\ IF players = None
       THEN /\ result' = Failure("Failed to parse JSON. Last error: ", last_error)
            /\ pc' = "done"
       ELSE IF players.t # "list"
         THEN /\ result' = Failure("Response is not a JSON array", NoError)
              /\ pc' = "done"
         ELSE /\ pc' = LoopEntry(players.a, "validate", "return")
              /\ UNCHANGED result
  /\ position' = 1
  /\ validated_players' = <<>>
  /\ seen_players' = {}
  /\ UNCHANGED <<backend, content, generated_text, attempt, parsed_by, last_error,
                 players, final_players, final_seen, application, first_players>>

\* lines 129-194: one turn of the loop over players; lines 197-198 after the
\* last turn; the except clause of line 229 when int(byes) raises
ValidateNext ==
  /\ pc = "validate"
  /\ UNCHANGED other_vars
  /\ LET player == players.a[position]
         name == NameOf(player)
         player_key == PlayerKey(name, UscfIdOf(player))
         last == position = Len(players.a)
         kept == HasName(player) /\ player_key \notin seen_players
     IN  IF kept /\ ByeRounds(player).raised
           THEN /\ result' = Failure("int() argument must be a string, a bytes-like object or a real number, not 'dict'", NoError)
                /\ pc' = "done"
                /\ seen_players' = seen_players \cup {player_key}
                /\ UNCHANGED <<validated_players, position>>
           ELSE /\ seen_players' = IF kept THEN seen_players \cup {player_key} ELSE seen_players
                /\ validated_players' =
                     IF kept THEN Append(validated_players, ValidatedPlayer(player))
                     ELSE validated_players
                /\ position' = IF last THEN 1 ELSE position + 1
                /\ pc' = IF ~last THEN "validate"
                         ELSE LoopEntry(validated_players', "dedup", "return")
                /\ UNCHANGED result
  /\ final_players' = <<>>
  /\ final_seen' = {}
  /\ UNCHANGED <<backend, content, generated_text, attempt, parsed_by, last_error,
                 players, application, first_players>>

\* lines 199-208: one turn of the loop over validated_players
DedupNext ==
  /\ pc = "dedup"
  /\ UNCHANGED other_vars
  /\ LET player == validated_players[position]
         key == FinalKey(player)
         last == position = Len(validated_players)
     IN  /\ final_seen' = final_seen \cup {key}
         /\ final_players' =
              IF key \in final_seen THEN final_players ELSE Append(final_players, player)
         /\ position' = IF last THEN 1 ELSE position + 1
         /\ pc' = IF last THEN "return" ELSE "dedup"
  /\ UNCHANGED <<backend, content, generated_text, attempt, parsed_by, last_error,
                 players, validated_players, seen_players, result, application,
                 first_players>>

\* lines 210-223
Return ==
  /\ pc = "return"
  /\ UNCHANGED other_vars
  /\ result' = Success(players.a, final_players)
  /\ pc' = "done"
  /\ UNCHANGED <<backend, content, generated_text, attempt, parsed_by, last_error,
                 players, position, validated_players, seen_players, final_players,
                 final_seen, application, first_players>>

\* lines 126-208 run a second time, on the data.players they produced
Reapply ==
  /\ pc = "done"
  /\ UNCHANGED other_vars
  /\ result.success
  /\ application = 1
  /\ application' = 2
  /\ first_players' = result.players
  /\ players' = PyList([k \in 1..Len(result.players) |-> AsParsed(result.players[k])])
  /\ position' = 1
  /\ validated_players' = <<>>
  /\ seen_players' = {}
  /\ final_players' = <<>>
  /\ final_seen' = {}
  /\ result' = NoResult
  /\ pc' = LoopEntry(result.players, "validate", "return")
  /\ UNCHANGED <<backend, content, generated_text, attempt, parsed_by, last_error>>

Next ==
  \/ Request
  \/ CleanFences
  \/ IsolateArray
  \/ HandleIncomplete
  \/ ParseAttempt
  \/ CheckParsed
  \/ ValidateNext
  \/ DedupNext
  \/ Return
  \/ Reapply

\* no request has been answered
NoResponse == [status_code |-> -1, workflow_runs |-> <<>>]

\* get_artifact_json has not been called
NoArtifactResponse ==
  [status_code |-> -1, named |-> FALSE, download |-> 0, parsed |-> FALSE, json |-> None]

\* no request has been sent
NoneSent == [dispatches |-> 0, artifact_lists |-> 0, downloads |-> 0]

\* no client has been started
NoTrigger ==
  /\ GITHUB_TOKEN = ""
  /\ input_text = <<>>
  /\ elapsed = 0
  /\ status_requests = 0
  /\ trigger_result = None
  /\ response = NoResponse
  /\ run_id = ""
  /\ artifact_response = NoArtifactResponse
  /\ sent = NoneSent

\* no browser has been launched
NoScraper ==
  /\ page = [load |-> "ok", name |-> <<>>, tbody |-> FALSE, year_rows |-> <<>>]
  /\ browser = "none"
  /\ year_idx = 1
  /\ row_idx = 1
  /\ year = None
  /\ all_games = <<>>
  /\ game_counter = 1

\* no pool of workers has been started
NoMulti ==
  /\ player_ids = <<>>
  /\ outputs_dir = <<>>
  /\ workers = <<>>
  /\ launched = <<>>
  /\ results = <<>>
  /\ summary = None

\* no script runs: the function is called on its own
NoProcess ==
  /\ program = "extract_players_from_text"
  /\ argv = <<>>
  /\ step = "call"
  /\ exit_status = Running
  /\ stdout = <<>>
  /\ stderr = {}
  /\ NoTrigger
  /\ NoScraper
  /\ NoMulti

\* the state when extract_players_from_text is entered, for a set of model outputs
InitWith(outputs) ==
  /\ \/ backend = "ok" /\ content \in outputs
     \/ backend \in BackendFailures /\ content = <<>>
  /\ generated_text = <<>>
  /\ pc = "request"
  /\ attempt = 1
  /\ parsed_by = 0
  /\ last_error = NoError
  /\ players = None
  /\ position = 1
  /\ validated_players = <<>>
  /\ seen_players = {}
  /\ final_players = <<>>
  /\ final_seen = {}
  /\ result = NoResult
  /\ application = 1
  /\ first_players = <<>>
  /\ NoProcess

(***************************************************************************)
(* The model outputs drawn for content: JSON texts as json.dumps writes    *)
(* them, and the ways a model departs from strict JSON                      *)
(***************************************************************************)
\* a style of writing: bare (unquoted) keys, a comma before every closing
\* bracket, single quotes for double quotes
Style(bare, trailing, single) == [bare |-> bare, trailing |-> trailing, single |-> single]

Strict == Style(FALSE, FALSE, FALSE)

RECURSIVE Dumps(_, _)
Dumps(v, style) ==
  LET quote == IF style.single THEN <<"'">> ELSE <<"\"">>
      close(c) == IF style.trailing THEN <<",", c>> ELSE <<c>>
      item(k) == (IF style.bare THEN v.o[k][1] ELSE quote \o v.o[k][1] \o quote)
                   \o <<":", " ">> \o Dumps(v.o[k][2], style)
  IN  CASE v.t = "none" -> <<"n", "u", "l", "l">>
        [] v.t = "bool" -> IF v.n = 1 THEN <<"t", "r", "u", "e">> ELSE <<"f", "a", "l", "s", "e">>
        [] v.t \in {"int", "float"} -> ToStr(v)
        [] v.t = "str" -> quote \o v.s \o quote
        [] v.t = "list" ->
             IF v.a = <<>> THEN <<"[", "]">>
             ELSE <<"[">> \o Join([k \in 1..Len(v.a) |-> Dumps(v.a[k], style)], <<",", " ">>)
                    \o close("]")
        [] v.t = "dict" ->
             IF v.o = <<>> THEN <<"{", "}">>
             ELSE <<"{">> \o Join([k \in 1..Len(v.o) |-> item(k)], <<",", " ">>) \o close("}")

\* the lists of n elements, the k-th element drawn from at[k]
RECURSIVE ListsOfLen(_, _)
ListsOfLen(n, at) ==
  IF n = 0 THEN {<<>>} ELSE {Append(l, x) : l \in ListsOfLen(n - 1, at), x \in at[n]}

\* the lists of at most max elements, the k-th element drawn from at[k]
ListsOf(max, at) == UNION {ListsOfLen(n, at) : n \in 0..max}

\* the most objects in an array the model writes
MaxObjects == 2

PlainObject == PyDict(<< <<k_name, PyStr(<<"A", "l", " ", "R", "o", "e">>)>> >>)

ByesObject ==
  PyDict(<< <<k_name, PyStr(<<"B", "o", " ", "L", "e", "e">>)>>, <<k_byes, PyList(<<PyInt(1), PyInt(3)>>)>> >>)

SampleArrays ==
  {PyList(a) : a \in ListsOf(MaxObjects, [k \in 1..MaxObjects |-> {PlainObject, ByesObject}])}

\* what a model puts before and after the array: nothing, a code fence, prose,
\* prose that has brackets of its own
PlainWrappers ==
  {<< <<>>, <<>> >>,
   << <<"~", "~", "~", "j", "s", "o", "n", "\n">>, <<"\n", "~", "~", "~">> >>,
   << <<"H", "e", "r", "e", ":", " ">>, <<" ", "d", "o", "n", "e">> >>}

BracketWrappers == {<< <<"S", "e", "e", " ", "[", "1", "]", ":", " ">>, <<>> >>}

Wrappers == PlainWrappers \cup BracketWrappers

Wrap(wrapper, text) == wrapper[1] \o text \o wrapper[2]

\* the styles the recovery is written for, and the use of single quotes
RepairableStyles == {Style(bare, trailing, FALSE) : bare, trailing \in BOOLEAN}

Styles == {Style(bare, trailing, single) : bare, trailing, single \in BOOLEAN}

\* a whole array, written in some style inside some wrapper
WholeCases ==
  {[text |-> Wrap(w, Dumps(array, style)), array |-> array, style |-> style, wrapper |-> w] :
     array \in SampleArrays, style \in Styles, w \in Wrappers}

\* an output cut off inside the object that follows `complete` whole objects
Truncated(complete, cut, keep) ==
  SubSeq(Dumps(PyList(complete), Strict), 1, Len(Dumps(PyList(complete), Strict)) - 1)
    \o <<",", " ">> \o SubSeq(Dumps(cut, Strict), 1, keep)

TruncatedCases ==
  {[text |-> Truncated(c.complete, c.cut, c.keep), complete |-> c.complete] :
     c \in UNION {{[complete |-> SubSeq(array.a, 1, Len(array.a) - 1),
                    cut |-> array.a[Len(array.a)], keep |-> keep] :
                     keep \in 1..(Len(Dumps(array.a[Len(array.a)], Strict)) - 1)} :
                   array \in {a \in SampleArrays : Len(a.a) >= 2}}}

\* outputs that are no array at all
OtherOutputs ==
  {<<"n", "u", "l", "l">>, <<"h", "e", "l", "l", "o">>, <<"{", "\"", "n", "a", "m", "e", "\"", ":", " ", "\"", "A", "l", " ", "R", "o", "e", "\"", "}">>, <<"1", "2">>, <<>>}

RecoveryOutputs ==
  {c.text : c \in WholeCases} \cup {c.text : c \in TruncatedCases} \cup OtherOutputs

Init == InitWith(RecoveryOutputs)

Spec == Init /\ [][Next]_vars

(***************************************************************************)
(* The records a model writes for the fields the prompt names (lines       *)
(* 26-41), serialized as strict JSON                                       *)
(***************************************************************************)
\* the most records in an array written for the normalization
MaxPlayers == 2

\* a name of its own for the record at position k: "P1 Roe", "P2 Roe", ...
NameAt(k) == <<"P">> \o NatStr(k) \o <<" ", "R", "o", "e">>

\* {"name": name}
Named(name) == PyDict(<< <<k_name, PyStr(name)>> >>)

\* {"name": name, key: v}
WithField(name, key, v) == PyDict(<< <<k_name, PyStr(name)>>, <<key, v>> >>)

\* the records at position k that give one field a value of a set, or leave
\* the field out
FieldRecords(k, key, values) ==
  {WithField(NameAt(k), key, v) : v \in values} \cup {Named(NameAt(k))}

\* the arrays of at most MaxPlayers records, the k-th drawn from at[k]
ArraysOf(at) == {PyList(a) : a \in ListsOf(MaxPlayers, at)}

\* rating: numbers in and out of 0..3000, with and without a fraction, a
\* numeral and a word as strings, null, a list, true
RatingValues ==
  {PyInt(1500),
   PyInt(0),
   PyInt(3000),
   PyInt(3001),
   PyInt(-1),
   PyStr(<<"1", "5", "0", "0">>),
   PyStr(<<"a", "b", "c">>),
   PyFloat(15007, <<"7">>),
   PyFloat(30009, <<"9">>),
   PyFloat(-5, <<"5">>),
   None,
   PyList(<<>>),
   PyBool(TRUE)}

\* grade
GradeValues ==
  {PyInt(5),
   PyInt(12),
   PyInt(1),
   PyInt(0),
   PyStr(<<"0">>),
   PyStr(<<>>),
   None,
   PyFloat(0, <<"0">>),
   PyInt(15),
   PyInt(-3),
   PyStr(<<"7">>),
   PyStr(<<"x">>)}

\* status
StatusValues ==
  {PyStr(<<"a", "c", "t", "i", "v", "e">>),
   PyStr(<<"w", "i", "t", "h", "d", "r", "a", "w", "n">>),
   PyStr(<<"b", "y", "e">>),
   None,
   PyStr(<<"x">>)}

\* byes: lists, comma-separated strings, scalars, null, an object
ByesValues ==
  {PyList(<<PyInt(3), PyInt(1), PyInt(3)>>),
   PyList(<<PyInt(1), PyInt(3)>>),
   PyStr(<<"2", ",", "1">>),
   PyStr(<<"1", ",", " ", "2">>),
   PyInt(2),
   PyInt(0),
   PyStr(<<"0">>),
   PyList(<<>>),
   PyList(<<PyInt(0), PyInt(-1)>>),
   PyStr(<<"x">>),
   None,
   PyDict(<<<<<<"r">>, PyInt(1)>>>>)}

\* the zero-only placeholders of a USCF id
Placeholders ==
  {PyStr(<<"0">>),
   PyStr(<<"0", "0", "0", "0", "0">>),
   PyStr(<<"0", "0", "0", "0">>),
   PyStr(<<>>)}

\* uscf_id: the placeholders, a real id, null
UscfIdValues == Placeholders \cup {PyStr(<<"1", "2", "3", "4", "5", "6", "7", "8">>), None}

\* one player written in three letter cases, one spelling for each position
BobLee(k) ==
  CASE k = 1 -> <<"B", "o", "b", " ", "L", "e", "e">>
    [] k = 2 -> <<"b", "o", "b", " ", "l", "e", "e">>
    [] OTHER -> <<"B", "O", "B", " ", "L", "E", "E">>

\* the records of one player at position k, with each uscf_id or without the key
UscfIdRecords(k) ==
  {WithField(BobLee(k), k_uscf_id, v) : v \in UscfIdValues} \cup {Named(BobLee(k))}

\* names: spellings of one name that differ in punctuation, spacing and case,
\* and names whose tokens are those of another in another order
NameValues ==
  {<<"J", "a", "n", "e", " ", "A", ".", " ", "D", "o", "e">>,
   <<"j", "a", "n", "e", " ", "a", " ", "d", "o", "e">>,
   <<"J", "A", "N", "E", " ", " ", "A", " ", "D", "O", "E">>,
   <<"D", "o", "e", ",", " ", "J", "a", "n", "e", " ", "A">>,
   <<"J", ".", "R", ".", " ", "D", "o", "e">>,
   <<"J", "R", " ", "D", "o", "e">>,
   <<"J", "a", "n", "e", " ", "D", "o", "e">>,
   <<"D", "o", "e", " ", "J", "a", "n", "e">>}

NameRecords == {Named(name) : name \in NameValues}

\* records that give several fields at once
FullRecords ==
  {PyDict(<<<<<<"n", "a", "m", "e">>, PyStr(<<"A", "l", " ", "R", "o", "e">>)>>, <<<<"u", "s", "c", "f", "_", "i", "d">>, PyStr(<<"1", "2", "3", "4", "5", "6", "7", "8">>)>>, <<<<"t", "e", "a", "m">>, PyStr(<<"R", "o", "o", "k", "s">>)>>, <<<<"b", "y", "e", "s">>, PyList(<<PyInt(1), PyInt(3)>>)>>, <<<<"r", "a", "t", "i", "n", "g">>, PyInt(1500)>>>>),
   PyDict(<<<<<<"n", "a", "m", "e">>, PyStr(<<"B", "o", " ", "L", "e", "e">>)>>, <<<<"u", "s", "c", "f", "_", "i", "d">>, PyStr(<<"0", "0", "0", "0">>)>>, <<<<"t", "e", "a", "m", "_", "n", "a", "m", "e">>, PyStr(<<"P", "a", "w", "n", "s">>)>>, <<<<"g", "r", "a", "d", "e">>, PyInt(5)>>, <<<<"s", "t", "a", "t", "u", "s">>, PyStr(<<"w", "i", "t", "h", "d", "r", "a", "w", "n">>)>>>>),
   PyDict(<<<<<<"n", "a", "m", "e">>, PyStr(<<"C", "y", " ", "P", "o", "e">>)>>, <<<<"t", "e", "a", "m">>, PyStr(<<"R", "o", "o", "k", "s">>)>>, <<<<"t", "e", "a", "m", "_", "n", "a", "m", "e">>, PyStr(<<"P", "a", "w", "n", "s">>)>>, <<<<"b", "y", "e", "s">>, PyStr(<<"2">>)>>, <<<<"s", "e", "c", "t", "i", "o", "n">>, PyStr(<<"O", "p", "e", "n">>)>>>>)}

\* elements of the array that are no objects
NonObjects ==
  {PyInt(5),
   PyStr(<<"A", "l", " ", "R", "o", "e">>),
   None,
   PyList(<<PyStr(<<"x">>)>>)}

\* objects without a usable name: no key, null, empty, white space only
UnnamedRecords ==
  {PyDict(<<<<<<"r", "a", "t", "i", "n", "g">>, PyInt(1500)>>>>),
   PyDict(<<<<<<"n", "a", "m", "e">>, None>>>>),
   PyDict(<<<<<<"n", "a", "m", "e">>, PyStr(<<>>)>>>>),
   PyDict(<<<<<<"n", "a", "m", "e">>, PyStr(<<" ", " ">>)>>>>)}

\* objects with a name at position k: plain, padded with spaces, a number
NamedRecords(k) ==
  {Named(NameAt(k)),
   Named(<<" ">> \o NameAt(k) \o <<" ">>),
   PyDict(<< <<k_name, PyInt(10 + k)>> >>)}

ElementsAt(k) == NonObjects \cup UnnamedRecords \cup NamedRecords(k)

\* names with one-letter tokens: an initial and a family name, two initials,
\* and the first of them with its tokens exchanged
InitialNames ==
  {<<"J", " ", "S", "m", "i", "t", "h">>,
   <<"K", " ", "S", "m", "i", "t", "h">>,
   <<"S", "m", "i", "t", "h", " ", "J">>,
   <<"A", " ", "B">>,
   <<"C", " ", "D">>}

\* the records of InitialNames without a USCF id, and with one of two
InitialRecords ==
  {Named(name) : name \in InitialNames}
    \cup {WithField(name, k_uscf_id, PyStr(id)) :
            name \in {<<"J", " ", "S", "m", "i", "t", "h">>, <<"K", " ", "S", "m", "i", "t", "h">>},
            id \in {<<"1", "1", "1", "1", "1", "1", "1", "1">>, <<"2", "2", "2", "2", "2", "2", "2", "2">>}}

RecordArrays ==
  ArraysOf([k \in 1..MaxPlayers |-> FieldRecords(k, k_rating, RatingValues)])
    \cup ArraysOf([k \in 1..MaxPlayers |-> FieldRecords(k, k_grade, GradeValues)])
    \cup ArraysOf([k \in 1..MaxPlayers |-> FieldRecords(k, k_status, StatusValues)])
    \cup ArraysOf([k \in 1..MaxPlayers |-> FieldRecords(k, k_byes, ByesValues)])
    \cup ArraysOf([k \in 1..MaxPlayers |-> UscfIdRecords(k)])
    \cup ArraysOf([k \in 1..MaxPlayers |-> NameRecords])
    \cup ArraysOf([k \in 1..MaxPlayers |-> FullRecords])
    \cup ArraysOf([k \in 1..MaxPlayers |-> ElementsAt(k)])
    \cup ArraysOf([k \in 1..MaxPlayers |-> InitialRecords])

RecordOutputs == {Dumps(array, Strict) : array \in RecordArrays}

RecordsInit == InitWith(RecordOutputs)

SpecRecords == RecordsInit /\ [][Next]_vars

(***************************************************************************)
(* trigger_workflow.py and trigger_getimport.py                            *)
(***************************************************************************)
\* extract_players_from_text is not running
NoImport ==
  /\ backend = "ok"
  /\ content = <<>>
  /\ generated_text = <<>>
  /\ pc = "idle"
  /\ attempt = 1
  /\ parsed_by = 0
  /\ last_error = NoError
  /\ players = None
  /\ position = 1
  /\ validated_players = <<>>
  /\ seen_players = {}
  /\ final_players = <<>>
  /\ final_seen = {}
  /\ result = NoResult
  /\ application = 1
  /\ first_players = <<>>

TriggerClients == {"trigger_workflow.py", "trigger_getimport.py"}

\* texts of the command line and of the files
PlayerText == <<"A", "l", " ", "R", "o", "e", " ", "1", "5", "0", "0">>
BlankText == <<" ", "\n">>
PlayerId == <<"3", "1", "9">>
DashF == <<"-", "f">>
DashFile == <<"-", "-", "f", "i", "l", "e">>

\* open(sys.argv[2]).read(): the text, or the exception raised
Files == [name \in {"in.txt", "blank.txt", "missing.txt", "locked.txt"} |->
           CASE name = "in.txt" -> [raised |-> "", read |-> PlayerText]
             [] name = "blank.txt" -> [raised |-> "", read |-> BlankText]
             [] name = "missing.txt" -> [raised |-> "FileNotFoundError", read |-> <<>>]
             [] name = "locked.txt" -> [raised |-> "PermissionError", read |-> <<>>]]

\* the command lines given to a client; a file name stands for itself
CommandLines(script) ==
  IF script = "trigger_workflow.py"
    THEN {<<>>, <<PlayerId>>}
    ELSE {<<>>, <<PlayerText>>, <<BlankText>>, << <<>> >>, <<DashF>>, <<DashFile>>}
           \cup {<<DashF, name>> : name \in DOMAIN Files}
           \cup {<<DashFile, "in.txt">>}

\* sys.exit(status) after the diagnostics given
Exit(status, lines) ==
  /\ exit_status' = status
  /\ stderr' = stderr \cup lines
  /\ step' = "exited"

\* trigger_workflow.py, lines 164-174
TriggerWorkflowMain ==
  /\ program = "trigger_workflow.py"
  /\ step = "main"
  /\ IF Len(argv) < 1
       THEN Exit(1, {"Usage: python trigger_workflow.py <player_id> [repo_owner] [repo_name]",
                     "Example: python trigger_workflow.py 31979530"})
       ELSE /\ step' = "token"
            /\ UNCHANGED <<exit_status, stderr>>
  /\ UNCHANGED <<program, argv, stdout, trigger_vars, import_vars, scraper_vars, multi_vars>>

\* trigger_getimport.py, lines 165-207
TriggerGetimportMain ==
  /\ program = "trigger_getimport.py"
  /\ step = "main"
  /\ IF Len(argv) < 1
       THEN /\ Exit(1, {"Usage: python trigger_getimport.py <text> [repo_owner] [repo_name]"})
            /\ UNCHANGED input_text
       ELSE IF argv[1] \in {DashF, DashFile}
         THEN IF Len(argv) < 2
                THEN /\ Exit(1, {"Error: -f requires a filename"})
                     /\ UNCHANGED input_text
                ELSE IF Files[argv[2]].raised = "FileNotFoundError"
                  THEN /\ Exit(1, {"Error: File not found: {sys.argv[2]}"})
                       /\ UNCHANGED input_text
                  ELSE IF Files[argv[2]].raised # ""
                    THEN /\ Exit(1, {"Error reading file: {e}"})
                         /\ UNCHANGED input_text
                    ELSE IF Strip(Files[argv[2]].read) = <<>>
                      THEN /\ Exit(1, {"Error: No text provided"})
                           /\ input_text' = Files[argv[2]].read
                      ELSE /\ input_text' = Files[argv[2]].read
                           /\ step' = "token"
                           /\ UNCHANGED <<exit_status, stderr>>
         ELSE IF Strip(argv[1]) = <<>>
           THEN /\ Exit(1, {"Error: No text provided"})
                /\ input_text' = argv[1]
           ELSE /\ input_text' = argv[1]
                /\ step' = "token"
                /\ UNCHANGED <<exit_status, stderr>>
  /\ UNCHANGED <<program, argv, stdout, GITHUB_TOKEN, elapsed, status_requests,
                 trigger_result, response, run_id, artifact_response, sent,
                 import_vars, scraper_vars, multi_vars>>

\* the request is sent again after the diagnostics given
SendAgain(lines) ==
  /\ trigger_result' = None
  /\ stderr' = stderr \cup lines
  /\ step' = "dispatch"

\* return None after the diagnostics given
ReturnNone(lines) ==
  /\ trigger_result' = None
  /\ stderr' = stderr \cup lines
  /\ step' = "finish"

\* lines 28-31
CheckToken ==
  /\ step = "token"
  /\ IF GITHUB_TOKEN = ""
       THEN ReturnNone({"Error: GITHUB_TOKEN environment variable is not set",
                        "Set it with: export GITHUB_TOKEN='your_token_here'"})
       ELSE /\ step' = "dispatch"
            /\ stderr' = stderr \cup {"Triggering workflow..."}
            /\ UNCHANGED trigger_result
  /\ UNCHANGED <<program, argv, exit_status, stdout, GITHUB_TOKEN, input_text, elapsed,
                 status_requests, response, run_id, artifact_response, sent,
                 import_vars, scraper_vars, multi_vars>>

\* how requests.post(url) ends: a status code, or an exception (code 0)
DispatchResponses == {204, 401, 404, 422, 0}

\* lines 45-65, and the except clause of lines 106-110
Dispatch ==
  /\ step = "dispatch"
  /\ sent' = [sent EXCEPT !.dispatches = @ + 1]
  /\ \E status_code \in DispatchResponses :
       IF status_code = 0
         THEN /\ ReturnNone({"Error: {e}"})
              /\ UNCHANGED <<elapsed, response, run_id>>
         ELSE /\ response' = [status_code |-> status_code, workflow_runs |-> <<>>]
              /\ IF status_code # 204
                   THEN /\ ReturnNone({"Error triggering workflow: {response.status_code}"})
                        /\ UNCHANGED <<elapsed, run_id>>
                   ELSE /\ stderr' = stderr \cup {"Workflow triggered. Waiting for completion..."}
                        /\ elapsed' = 0
                        /\ run_id' = ""
                        /\ step' = "poll"
                        /\ UNCHANGED trigger_result
  /\ UNCHANGED <<program, argv, exit_status, stdout, GITHUB_TOKEN, input_text,
                 status_requests, artifact_response, import_vars, scraper_vars, multi_vars>>

\* line 62
max_wait_time == 600

\* line 63
wait_interval == 5

\* time.sleep(wait_interval) without elapsed += wait_interval
WaitedUncounted(e) == e

\* lines 77-78, 96-97, 100-101: time.sleep(wait_interval); elapsed += wait_interval
Waited(e) == e + wait_interval

\* a run of the list; its id names the dispatch that created it
Run(id, status, conclusion) == [id |-> id, status |-> status, conclusion |-> conclusion]

\* the run the client's own dispatch creates
OwnRun == "run of this dispatch"

\* the latest run of the workflow while the own run is not listed yet, and
\* the run of a dispatch another client sends later
OtherRuns == {"run of an earlier dispatch", "run of a later dispatch"}

\* how requests.get(runs_url) and response.json() end: a status code with the
\* list workflow_runs (per_page = 1: the latest run of the workflow), or an
\* exception (status code 0)
RunsResponses ==
  {[status_code |-> 0, workflow_runs |-> <<>>],
   [status_code |-> 500, workflow_runs |-> <<>>],
   [status_code |-> 200, workflow_runs |-> <<>>]}
    \cup {[status_code |-> 200, workflow_runs |-> <<Run(OwnRun, status, "null")>>] :
            status \in {"queued", "in_progress", "requested", "null"}}
    \cup {[status_code |-> 200, workflow_runs |-> <<Run(OwnRun, "completed", conclusion)>>] :
            conclusion \in {"success", "failure", "cancelled"}}
    \cup {[status_code |-> 200, workflow_runs |-> <<Run(id, "completed", conclusion)>>] :
            id \in OtherRuns, conclusion \in {"success", "failure"}}
    \cup {[status_code |-> 200,
           workflow_runs |-> <<Run("run of a later dispatch", "in_progress", "null")>>]}

\* lines 67-104: the test of the while, and one turn of it
Poll ==
  /\ step = "poll"
  /\ IF elapsed < max_wait_time
       THEN \E answer \in RunsResponses :
              /\ status_requests' = status_requests + 1
              /\ IF answer.status_code = 0
                   THEN /\ ReturnNone({"Error: {e}"})
                        /\ UNCHANGED <<elapsed, response, run_id>>
                   ELSE /\ response' = answer
                        /\ IF answer.status_code # 200
                             THEN /\ ReturnNone({"Error getting workflow runs: {response.status_code}"})
                                  /\ UNCHANGED <<elapsed, run_id>>
                             ELSE IF answer.workflow_runs = <<>>
                               THEN /\ elapsed' = Waited(elapsed)
                                    /\ UNCHANGED <<step, stderr, trigger_result, run_id>>
                               ELSE LET run == answer.workflow_runs[1]
                                    IN  /\ run_id' = run.id
                                        /\ IF run.status = "completed"
                                             THEN IF run.conclusion = "success"
                                                    THEN /\ stderr' = stderr \cup {"Workflow completed successfully!"}
                                                         /\ step' = "artifact"
                                                         /\ UNCHANGED <<elapsed, trigger_result>>
                                                    ELSE /\ ReturnNone({"Workflow failed with conclusion: {conclusion}"})
                                                         /\ UNCHANGED elapsed
                                             ELSE IF run.status \in {"queued", "in_progress"}
                                               THEN /\ stderr' = stderr \cup {"Workflow {status}... ({elapsed}s elapsed)"}
                                                    /\ elapsed' = Waited(elapsed)
                                                    /\ UNCHANGED <<step, trigger_result>>
                                               ELSE /\ stderr' = stderr \cup {"Workflow status: {status}"}
                                                    /\ elapsed' = Waited(elapsed)
                                                    /\ UNCHANGED <<step, trigger_result>>
       ELSE /\ ReturnNone({"Timeout waiting for workflow to complete"})
            /\ UNCHANGED <<elapsed, status_requests, response, run_id>>
  /\ UNCHANGED <<program, argv, exit_status, stdout, GITHUB_TOKEN, input_text,
                 artifact_response, sent, import_vars, scraper_vars, multi_vars>>

\* the JSON values an output.json holds
Payloads ==
  {PyDict(<< <<k_name, PyStr(<<"o", "k">>)>> >>), PyDict(<<>>), None}

\* how the requests of get_artifact_json end: the status of the list (0 for
\* an exception), whether an artifact of the expected name with a download
\* url is listed, the status of the download, whether a JSON file of the
\* archive parses, and its value
ArtifactResponses ==
  {[status_code |-> 0, named |-> FALSE, download |-> 0, parsed |-> FALSE, json |-> None],
   [status_code |-> 404, named |-> FALSE, download |-> 0, parsed |-> FALSE, json |-> None],
   [status_code |-> 200, named |-> FALSE, download |-> 0, parsed |-> FALSE, json |-> None],
   [status_code |-> 200, named |-> TRUE, download |-> 410, parsed |-> FALSE, json |-> None],
   [status_code |-> 200, named |-> TRUE, download |-> 200, parsed |-> FALSE, json |-> None]}
    \cup {[status_code |-> 200, named |-> TRUE, download |-> 200, parsed |-> TRUE, json |-> payload] :
            payload \in Payloads}

\* get_artifact_json, lines 112-162
GetArtifact ==
  /\ step = "artifact"
  /\ \E answer \in ArtifactResponses :
       /\ sent' = [sent EXCEPT !.artifact_lists = @ + 1,
                               !.downloads = IF answer.named THEN @ + 1 ELSE @]
       /\ IF answer.status_code = 0
            THEN /\ ReturnNone({"Error getting artifact: {e}"})
                 /\ UNCHANGED artifact_response
            ELSE /\ artifact_response' = answer
                 /\ IF answer.status_code # 200
                      THEN ReturnNone({"Error getting artifacts: {response.status_code}"})
                      ELSE IF ~answer.named
                        THEN ReturnNone({"Artifact not found or couldn't extract JSON"})
                        ELSE IF answer.download # 200
                          THEN ReturnNone({"Downloading artifact...",
                                           "Artifact not found or couldn't extract JSON"})
                          ELSE IF ~answer.parsed
                            THEN ReturnNone({"Downloading artifact...",
                                             "Artifact not found or couldn't extract JSON"})
                            ELSE /\ trigger_result' = answer.json
                                 /\ stderr' = stderr \cup {"Downloading artifact..."}
                                 /\ step' = "finish"
  /\ UNCHANGED <<program, argv, exit_status, stdout, GITHUB_TOKEN, input_text, elapsed,
                 status_requests, response, run_id, import_vars, scraper_vars, multi_vars>>

\* trigger_workflow.py lines 176-179, trigger_getimport.py lines 209-212
Finish ==
  /\ step = "finish"
  /\ IF Truthy(trigger_result)
       THEN /\ stdout' = Append(stdout, trigger_result)
            /\ exit_status' = 0
       ELSE /\ exit_status' = 1
            /\ UNCHANGED stdout
  /\ step' = "exited"
  /\ UNCHANGED <<program, argv, stderr, trigger_vars, import_vars, scraper_vars, multi_vars>>

TriggerNext ==
  \/ TriggerWorkflowMain
  \/ TriggerGetimportMain
  \/ CheckToken
  \/ Dispatch
  \/ Poll
  \/ GetArtifact
  \/ Finish

\* a client is started: its command line, and GITHUB_TOKEN of the environment
TriggerInit ==
  /\ program \in TriggerClients
  /\ argv \in CommandLines(program)
  /\ step = "main"
  /\ exit_status = Running
  /\ stdout = <<>>
  /\ stderr = {}
  /\ GITHUB_TOKEN \in {"", "ghp_token"}
  /\ input_text = <<>>
  /\ elapsed = 0
  /\ status_requests = 0
  /\ trigger_result = None
  /\ response = NoResponse
  /\ run_id = ""
  /\ artifact_response = NoArtifactResponse
  /\ sent = NoneSent
  /\ NoScraper
  /\ NoMulti
  /\ NoImport

SpecTrigger == TriggerInit /\ [][TriggerNext]_vars

\* every request is answered and the script runs on: a statement that is
\* reached is executed
SpecTriggerRuns == SpecTrigger /\ WF_vars(TriggerNext)

(***************************************************************************)
(* m.py: the scraper of a player's games, year by year                     *)
(***************************************************************************)
\* line 11
DefaultPlayerId == <<"3", "1", "9", "7", "9", "5", "3", "0">>

\* lines 8-11
player_id == IF Len(argv) > 0 THEN argv[1] ELSE DefaultPlayerId

\* a tr of a games table: the number of its td, the text of the result
\* cell and of the color cell, and whether reading a later cell raises
\* the tournament page of a game row: whether the row gives a tournament url
\* and an opponent id (line 222), how opening the page ends ("ok",
\* "raises"), the opponent's row on it ("found", "missing", "raises" when
\* reading it raises) and the texts of the cells of that row
Tournament(lookup, opened, row, cells_in_row) ==
  [lookup |-> lookup, opened |-> opened, row |-> row, cells_in_row |-> cells_in_row]

NoTournament == Tournament(FALSE, "ok", "missing", <<>>)

GameRow(cells, result_text, color_text, raises) ==
  [cells |-> cells, result |-> result_text, color |-> color_text, raises |-> raises,
   tournament |-> NoTournament]

WinRow == GameRow(6, <<" ", "W", " ">>, <<"W">>, FALSE)
LossRow == GameRow(6, <<"L">>, <<"B">>, FALSE)
DrawRow == GameRow(7, <<"D">>, <<"-", "-">>, FALSE)
ShortRow == GameRow(5, <<"W">>, <<"W">>, FALSE)
HeaderRow == GameRow(6, <<"R", "e", "s", "u", "l", "t">>, <<"C", "o", "l", "o", "r">>, FALSE)
EmptyRow == GameRow(6, <<" ">>, <<>>, FALSE)
RaisingRow == GameRow(6, <<"W">>, <<"W">>, TRUE)

\* the tbody of a games table
GameTables ==
  {<<>>, <<WinRow>>, <<WinRow, WinRow>>, <<ShortRow, LossRow>>,
   <<HeaderRow, RaisingRow, DrawRow, EmptyRow>>}

\* the rows of opponents on a tournament page: the texts of their cells
OpponentRows ==
  {<<<<"1">>, <<"A", "l", " ", "R", "o", "e">>, <<"1", "5", "0", "0">>>>,
   <<<<"1", "2">>, <<"B", "o", " ", "L", "e", "e", " ", "1", "2", "3", "4", "5", "6", "7", "8">>, <<"3", "0", "0", "1">>, <<"1", "4", "5", "0">>>>,
   <<<<"0", "9", "9">>, <<"W", " ", "5">>>>,
   <<<<"0", "0", "5", "0", " ", "1", "5", "0", "0">>>>,
   <<<<"R", "1", "5", "0", "0">>, <<"1", "0", "0">>>>,
   <<<<"1", "2", "3", "4", "5">>, <<"3", "0", "0", "0">>>>,
   <<<<"9", "9", "9", "9">>, <<"x", " ", "9", "9", "9", " ", "y">>>>,
   <<<<"n", "o", " ", "r", "a", "t", "i", "n", "g">>>>}

\* what the lookup of the opponent's rating can meet
Tournaments ==
  {NoTournament,
   Tournament(TRUE, "raises", "missing", <<>>),
   Tournament(TRUE, "ok", "missing", <<>>),
   Tournament(TRUE, "ok", "raises", <<<<"1", "5", "0", "0">>>>)}
    \cup {Tournament(TRUE, "ok", "found", cells_in_row) : cells_in_row \in OpponentRows}

\* a won game with white whose tournament is the one given
RatedRow(tournament) == [WinRow EXCEPT !.tournament = tournament]

\* a tr of the year table: the text of its first td, its games button
\* ("ok", "missing", "click raises"), the games table the click opens
\* ("found", "missing", "raises") and the rows of that table
YearRow(year_text, button, table, game_rows) ==
  [year_text |-> year_text, button |-> button, table |-> table, game_rows |-> game_rows]

\* the year of the k-th row of the year table
YearAt(k) == <<"2", "0", "2">> \o NatStr(k)

\* the rows a year table can hold at position k
YearRowsAt(k) ==
  {YearRow(<<"Y", "e", "a", "r">>, "ok", "found", <<WinRow>>),
   YearRow(YearAt(k), "missing", "found", <<WinRow>>),
   YearRow(YearAt(k), "click raises", "found", <<WinRow>>),
   YearRow(YearAt(k), "ok", "missing", <<>>),
   YearRow(YearAt(k), "ok", "raises", <<WinRow>>)}
    \cup {YearRow(<<" ">> \o YearAt(k), "ok", "found", game_rows) : game_rows \in GameTables}
    \cup {YearRow(YearAt(k), "ok", "found", <<RatedRow(tournament)>>) :
            tournament \in IF k = 1 THEN Tournaments ELSE {}}

MaxYears == 3

\* the player page: how loading it ends, the name found on it, whether it
\* has a tbody, and the rows of the year table
Pages ==
  {[load |-> "raises", name |-> <<>>, tbody |-> FALSE, year_rows |-> <<>>],
   [load |-> "ok", name |-> <<>>, tbody |-> FALSE, year_rows |-> <<>>]}
    \cup {[load |-> "ok", name |-> <<"A", "l", " ", "R", "o", "e">>, tbody |-> TRUE,
           year_rows |-> rows] : rows \in ListsOf(MaxYears, [k \in 1..MaxYears |-> YearRowsAt(k)])}

\* lines 31-39
player_name == IF page.name = <<>> THEN <<"U", "n", "k", "n", "o", "w", "n">> ELSE page.name

\* lines 17-60, and lines 367-373 for an exception of lines 18-28
Launch ==
  /\ program = "m.py"
  /\ step = "launch"
  /\ IF page.load = "raises"
       THEN /\ Exit(1, {"Loading player page: {player_url}",
                         "{error: str(e), player_id: player_id}"})
            /\ browser' = "closed"
            /\ UNCHANGED <<year_idx, all_games, game_counter>>
       ELSE IF ~page.tbody
         THEN /\ Exit(1, {"Loading player page: {player_url}", "No year statistics table found."})
              /\ browser' = "closed"
              /\ UNCHANGED <<year_idx, all_games, game_counter>>
         ELSE /\ browser' = "open"
              /\ stderr' = stderr \cup {"Loading player page: {player_url}",
                                        "Found {len(year_rows)} years of data."}
              /\ all_games' = <<>>
              /\ game_counter' = 1
              /\ year_idx' = 1
              /\ step' = "year"
              /\ UNCHANGED exit_status
  /\ UNCHANGED <<program, argv, stdout, page, row_idx, year, trigger_vars, import_vars, multi_vars>>

\* break in the place of continue: the loop over year_rows is left
Break(lines) ==
  /\ year_idx' = Len(page.year_rows) + 1
  /\ stderr' = stderr \cup lines
  /\ step' = "year"

\* continue: the next turn of for year_idx, year_row in enumerate(year_rows)
Continue(lines) ==
  /\ year_idx' = year_idx + 1
  /\ stderr' = stderr \cup lines
  /\ step' = "year"

\* lines 63-143: the unit of one year row up to its games table. year_idx
\* counts from 1. Every call on the page raises once the browser is closed.
OpenYear ==
  /\ step = "year"
  /\ year_idx <= Len(page.year_rows)
  /\ LET year_row == page.year_rows[year_idx]
         year_text == Strip(year_row.year_text)
     IN  IF browser = "closed"
           THEN /\ Continue({"Error processing year {year}: {e}"})
                /\ UNCHANGED <<year, row_idx>>
           ELSE IF ~IsDigit(year_text)
             THEN /\ Continue({})
                  /\ year' = None
                  /\ UNCHANGED row_idx
             ELSE IF year_row.button = "missing"
               THEN /\ Continue({"Processing year {year}...", "No games button found for year {year}"})
                    /\ year' = PyStr(year_text)
                    /\ UNCHANGED row_idx
               ELSE IF year_row.button = "click raises"
                 THEN /\ Continue({"Processing year {year}...", "Error clicking button for year {year}: {e}"})
                      /\ year' = PyStr(year_text)
                      /\ UNCHANGED row_idx
                 ELSE IF year_row.table = "raises"
                   THEN /\ Continue({"Processing year {year}...", "Error processing year {year}: {e}"})
                        /\ year' = PyStr(year_text)
                        /\ UNCHANGED row_idx
                   ELSE IF year_row.table = "missing"
                     THEN /\ Continue({"Processing year {year}...", "No games table found for year {year}"})
                          /\ year' = PyStr(year_text)
                          /\ UNCHANGED row_idx
                     ELSE /\ year' = PyStr(year_text)
                          /\ row_idx' = 1
                          /\ stderr' = stderr \cup {"Processing year {year}...",
                                                    "Found {len(game_rows)} games for year {year}"}
                          /\ step' = "rows"
                          /\ UNCHANGED year_idx
  /\ UNCHANGED <<program, argv, exit_status, stdout, page, browser, all_games, game_counter,
                 trigger_vars, import_vars, multi_vars>>

\* lines 173-181
ColorOf(color_text) ==
  IF \E k \in 1..Len(color_text) : color_text[k] = "W" THEN "White"
  ELSE IF \E k \in 1..Len(color_text) : color_text[k] = "B" THEN "Black"
  ELSE "Unknown"

\* \w of the pattern, for the characters of the texts
IsWordChar(c) == c \in DigitSet \cup Letters \cup {"_"}

\* \b(\d{3,4})\b matches k digits at position i of the text
TokenAt(row_text, i, k) ==
  /\ i + k - 1 <= Len(row_text)
  /\ \A j \in i..(i + k - 1) : row_text[j] \in DigitSet
  /\ i = 1 \/ ~IsWordChar(row_text[i - 1])
  /\ i + k - 1 = Len(row_text) \/ ~IsWordChar(row_text[i + k])

\* lines 260 and 276: re.search(r'\b(\d{3,4})\b', text), group(1) of the
\* leftmost match, <<>> when there is none
RatingMatch(row_text) ==
  LET starts == {i \in 1..Len(row_text) : TokenAt(row_text, i, 4) \/ TokenAt(row_text, i, 3)}
      first == CHOOSE i \in starts : \A j \in starts : i <= j
  IN  IF starts = {} THEN <<>>
      ELSE IF TokenAt(row_text, first, 4) THEN SubSeq(row_text, first, first + 3)
      ELSE SubSeq(row_text, first, first + 2)

MinOpponentRating == 100

MaxOpponentRating == 3000

\* lines 265 and 279 with 0 for the lower limit
IsReasonableFromZero(potential_rating) ==
  0 <= potential_rating /\ potential_rating <= MaxOpponentRating

\* lines 265 and 279: 100 <= rating_int <= 3000
IsReasonable(potential_rating) ==
  MinOpponentRating <= potential_rating /\ potential_rating <= MaxOpponentRating

\* a text has a token and the token is a reasonable rating
HasRating(cell_text) ==
  RatingMatch(cell_text) # <<>> /\ IsReasonable(DigitsVal(RatingMatch(cell_text), 0))

\* lines 258-282: the rating read off the opponent's row, whose inner_text
\* is the texts of its cells with a tab between them
RatingInRow(cells_in_row) ==
  LET row_text == Join(cells_in_row, <<"\t">>)
      rated == {c \in 1..Len(cells_in_row) : HasRating(Strip(cells_in_row[c]))}
  IN  IF HasRating(row_text) THEN PyInt(DigitsVal(RatingMatch(row_text), 0))
      ELSE IF rated = {} THEN None
      ELSE PyInt(DigitsVal(RatingMatch(Strip(cells_in_row[CHOOSE c \in rated :
                                                \A d \in rated : c <= d])), 0))

\* lines 189 and 221-294: opponent_rating
OpponentRating(tournament) ==
  IF tournament.lookup /\ tournament.opened = "ok" /\ tournament.row = "found"
    THEN RatingInRow(tournament.cells_in_row)
    ELSE None

\* lines 224, 267, 281, 284 and 293: what the lookup prints
LookupMessages(tournament) ==
  IF ~tournament.lookup THEN {}
  ELSE {"Extracting rating for opponent {opponent_uscf_id} from tournament..."}
         \cup (IF tournament.opened = "raises"
                 THEN {"Error navigating to tournament page: {e}"}
               ELSE IF tournament.row = "raises"
                 THEN {"Error extracting rating from row: {e}"}
               ELSE IF OpponentRating(tournament) # None
                 THEN {"Found rating: {opponent_rating}"}
               ELSE {})

\* lines 297-311 with the text of the result cell as it is read, not stripped
GameUntrimmed(game_row) ==
  [round |-> None, result |-> game_row.result, color |-> ColorOf(game_row.color),
   opponent_rating |-> OpponentRating(game_row.tournament),
   player_name |-> player_name, player_uscf_id |-> player_id, player_rating |-> None,
   year |-> year]

\* lines 297-311: the fields of the game read off the row
Game(game_row) ==
  [round |-> None, result |-> Strip(game_row.result), color |-> ColorOf(game_row.color),
   opponent_rating |-> OpponentRating(game_row.tournament),
   player_name |-> player_name, player_uscf_id |-> player_id, player_rating |-> None,
   year |-> year]

\* lines 158-171: the rows that give no game
IsSkipped(game_row) ==
  \/ game_row.cells < 6
  \/ Strip(game_row.result) \in
       {<<"R", "e", "s", "u", "l", "t">>, <<"Y", "e", "a", "r">>, <<>>}

\* lines 146-318: one turn of for game_row in game_rows
ExtractGame ==
  /\ step = "rows"
  /\ row_idx <= Len(page.year_rows[year_idx].game_rows)
  /\ LET game_row == page.year_rows[year_idx].game_rows[row_idx]
     IN  IF IsSkipped(game_row)
           THEN UNCHANGED <<all_games, game_counter, stderr>>
           ELSE IF game_row.raises
             THEN /\ stderr' = stderr \cup {"Error extracting game from row: {e}"}
                  /\ UNCHANGED <<all_games, game_counter>>
             ELSE /\ all_games' = Append(all_games, Game(game_row))
                  /\ game_counter' = game_counter + 1
                  /\ stderr' = stderr \cup LookupMessages(game_row.tournament)
  /\ row_idx' = row_idx + 1
  /\ UNCHANGED <<program, argv, step, exit_status, stdout, page, browser, year_idx, year,
                 trigger_vars, import_vars, multi_vars>>

\* lines 348-350 with enumerate(all_games) counting from 0
GamesDictFromZero(games) ==
  [key \in {NatStr(idx - 1) : idx \in 1..Len(games)} |->
     games[CHOOSE idx \in 1..Len(games) : NatStr(idx - 1) = key]]

\* lines 348-350: games_dict[str(idx)] = game for enumerate(all_games, 1)
GamesDict(games) ==
  [key \in {NatStr(idx) : idx \in 1..Len(games)} |->
     games[CHOOSE idx \in 1..Len(games) : NatStr(idx) = key]]

\* lines 353-360
Output(games) ==
  [player |-> [name |-> player_name, uscf_id |-> player_id, rating |-> None],
   games |-> GamesDict(games)]

\* lines 320-365, at the end of a turn of the loop over year_rows: the games
\* table is closed, the document is printed and the browser is closed
EmitOutput ==
  /\ step = "rows"
  /\ row_idx > Len(page.year_rows[year_idx].game_rows)
  /\ stdout' = Append(stdout, Output(all_games))
  /\ browser' = "closed"
  /\ year_idx' = year_idx + 1
  /\ step' = "year"
  /\ UNCHANGED <<program, argv, exit_status, stderr, page, row_idx, year, all_games,
                 game_counter, trigger_vars, import_vars, multi_vars>>

\* the loop over year_rows is over: the script ends
EndOfScript ==
  /\ program = "m.py"
  /\ step = "year"
  /\ year_idx > Len(page.year_rows)
  /\ exit_status' = 0
  /\ step' = "exited"
  /\ UNCHANGED <<program, argv, stdout, stderr, scraper_vars, trigger_vars, import_vars, multi_vars>>

ScraperNext ==
  \/ Launch
  \/ OpenYear
  \/ ExtractGame
  \/ EmitOutput
  \/ EndOfScript

\* the scraper is started for a player page
ScraperInit ==
  /\ program = "m.py"
  /\ argv \in {<<>>, <<PlayerId>>}
  /\ step = "launch"
  /\ exit_status = Running
  /\ stdout = <<>>
  /\ stderr = {}
  /\ page \in Pages
  /\ browser = "none"
  /\ year_idx = 1
  /\ row_idx = 1
  /\ year = None
  /\ all_games = <<>>
  /\ game_counter = 1
  /\ NoTrigger
  /\ NoMulti
  /\ NoImport

SpecScraper == ScraperInit /\ [][ScraperNext]_vars

(***************************************************************************)
(* test_multi_ids.py: the scraper run for several ids in parallel          *)
(***************************************************************************)
\* s.startswith(word), s.endswith(word)
StartsWith(s, word) == Matches(s, 0, word)

EndsWith(s, word) == Len(word) <= Len(s) /\ Slice(s, Len(s) - Len(word), Len(s)) = word

\* s.replace(word, "")
RECURSIVE Removed(_, _)
Removed(s, word) ==
  IF s = <<>> THEN <<>>
  ELSE IF Matches(s, 0, word) THEN Removed(Slice(s, Len(word), Len(s)), word)
  ELSE <<Head(s)>> \o Removed(Tail(s), word)

\* lines 12-24
TEST_IDS ==
  <<<<"3", "0", "5", "2", "2", "1", "8", "9">>,
    <<"1", "6", "5", "7", "6", "0", "8", "6">>,
    <<"3", "1", "1", "7", "7", "8", "2", "9">>,
    <<"3", "1", "3", "3", "4", "1", "2", "5">>,
    <<"3", "0", "3", "8", "6", "4", "3", "0">>,
    <<"3", "2", "6", "3", "2", "6", "0", "0">>,
    <<"3", "2", "5", "8", "3", "7", "2">>,
    <<"3", "0", "5", "2", "9", "4", "5", "2">>,
    <<"3", "0", "7", "2", "1", "8", "1", "9">>,
    <<"3", "1", "7", "4", "1", "3", "3", "8">>,
    <<"3", "2", "6", "3", "9", "7", "9", "3">>>>

ChessGames == <<"c", "h", "e", "s", "s", "-", "g", "a", "m", "e", "s", "-">>

DotJson == <<".", "j", "s", "o", "n">>

SummaryJson == <<"s", "u", "m", "m", "a", "r", "y", ".", "j", "s", "o", "n">>

\* line 28, inside outputs/
OutputFile(id) == ChessGames \o id \o DotJson

\* the ids given on the command line
Ids == {<<"7">>, <<"8">>}

MaxIds == 2

\* sys.argv[1]: up to MaxIds ids with a comma, or a comma and a space, between them
IdLists == ListsOf(MaxIds, [k \in 1..MaxIds |-> Ids]) \ {<<>>}

IdArguments == {Join(ids, sep) : ids \in IdLists, sep \in {<<",">>, <<",", " ">>}}

\* what m.py prints with exit status 0: a document, or nothing
ScraperDocument(id) ==
  Dumps(PyDict(<< <<<<"p", "l", "a", "y", "e", "r">>, PyDict(<< <<k_name, PyStr(<<"U", "n", "k", "n", "o", "w", "n">>)>>,
                                         <<k_uscf_id, PyStr(id)>>,
                                         <<k_rating, None>> >>)>>,
                  <<<<"g", "a", "m", "e", "s">>, PyDict(<<>>)>> >>), Strict)

\* how subprocess.run ends: returncode and stdout, TimeoutExpired, or another exception
RunOutcomes(id) ==
  {[raised |-> "", returncode |-> 0, stdout |-> ScraperDocument(id), stderr |-> <<>>],
   [raised |-> "", returncode |-> 0, stdout |-> <<>>, stderr |-> <<>>],
   [raised |-> "", returncode |-> 1, stdout |-> <<>>, stderr |-> <<"b", "o", "o", "m">>],
   [raised |-> "TimeoutExpired", returncode |-> 0, stdout |-> <<>>, stderr |-> <<>>],
   [raised |-> "OSError", returncode |-> 0, stdout |-> <<>>, stderr |-> <<>>]}

\* error_json of lines 44-48, 54-57 and 63-66, as json.dumps writes it
\* without indent
ErrorJson(message, id, more) ==
  Dumps(PyDict(<< <<<<"e", "r", "r", "o", "r">>, PyStr(message)>>,
                  <<<<"p", "l", "a", "y", "e", "r", "_", "i", "d">>, PyStr(id)>> >> \o more), Strict)

\* lines 41-49, 54-59, 63-68: what is written to the output file
FileText(id, outcome) ==
  CASE outcome.raised = "TimeoutExpired" ->
         ErrorJson(<<"T", "i", "m", "e", "o", "u", "t", " ", "p", "r", "o", "c", "e", "s", "s", "i", "n", "g", " ", "p", "l", "a", "y", "e", "r", " ", "I", "D", " ">> \o id, id, <<>>)
    [] outcome.raised # "" ->
         ErrorJson(<<"E", "x", "c", "e", "p", "t", "i", "o", "n", " ", "p", "r", "o", "c", "e", "s", "s", "i", "n", "g", " ", "p", "l", "a", "y", "e", "r", " ", "I", "D", " ">> \o id
                     \o <<":", " ", "f", "o", "r", "k", " ", "f", "a", "i", "l", "e", "d">>, id, <<>>)
    [] outcome.returncode = 0 -> outcome.stdout
    [] OTHER ->
         ErrorJson(<<"F", "a", "i", "l", "e", "d", " ", "t", "o", " ", "s", "c", "r", "a", "p", "e", " ", "g", "a", "m", "e", "s", " ", "f", "o", "r", " ", "p", "l", "a", "y", "e", "r", " ", "I", "D", " ">> \o id, id,
                   << <<<<"s", "t", "d", "e", "r", "r">>, PyStr(outcome.stderr)>> >>)

\* lines 52, 61, 70 with success for every outcome that is no exception
ResultOfAnyExit(id, outcome) ==
  [player_id |-> id, success |-> outcome.raised = "", file |-> OutputFile(id)]

\* lines 52, 61, 70
ResultOf(id, outcome) ==
  [player_id |-> id, success |-> outcome.raised = "" /\ outcome.returncode = 0,
   file |-> OutputFile(id)]

\* a file written at its start over what another writer has put there since
\* the file was opened
Overlay(existing, written) ==
  IF Len(written) >= Len(existing) THEN written
  ELSE written \o SubSeq(existing, Len(written) + 1, Len(existing))

\* the directory outputs/ before the run: file name |-> text
StaleDocument == <<"{", "\"", "p", "l", "a", "y", "e", "r", "\"", ":", " ", "\"", "o", "l", "d", "\"", "}">>

PriorOutputs ==
  {<<>>,
   << <<OutputFile(<<"7">>), StaleDocument>> >>,
   << <<OutputFile(<<"9", "9", "9">>), StaleDocument>> >>,
   << <<SummaryJson, <<"{", "}">> >>, <<<<"n", "o", "t", "e", "s", ".", "t", "x", "t">>, <<"x">> >> >>}

\* a directory as a function from its file names
Directory(files) ==
  [name \in {files[k][1] : k \in 1..Len(files)} |->
     files[CHOOSE k \in 1..Len(files) : files[k][1] = name][2]]

\* the directory with the text written to a file
WithFile(dir, name, written) ==
  [n \in DOMAIN dir \cup {name} |-> IF n = name THEN written ELSE dir[n]]

\* a worker: queued, running its subprocess, writing its file, or returned
Queued == [at |-> "queued", outcome |-> <<>>]

\* lines 109-118
Main ==
  /\ program = "test_multi_ids.py"
  /\ step = "main"
  /\ player_ids' = IF Len(argv) > 0
                     THEN [k \in 1..Len(SplitOn(argv[1], ",")) |-> Strip(SplitOn(argv[1], ",")[k])]
                     ELSE TEST_IDS
  /\ workers' = [k \in 1..Len(player_ids') |-> Queued]
  /\ launched' = [k \in 1..Len(player_ids') |-> 0]
  /\ step' = "pool"
  /\ UNCHANGED <<program, argv, exit_status, stdout, stderr, outputs_dir, results, summary,
                 trigger_vars, scraper_vars, import_vars>>

\* line 122
max_workers == IF Len(player_ids) < 10 THEN Len(player_ids) ELSE 10

\* lines 30-36: a thread of the pool takes a submitted call and starts the subprocess
StartWorker(k) ==
  /\ step = "pool"
  /\ workers[k].at = "queued"
  /\ Cardinality({j \in DOMAIN workers : workers[j].at \in {"running", "writing"}}) < max_workers
  /\ workers' = [workers EXCEPT ![k].at = "running"]
  /\ launched' = [launched EXCEPT ![k] = @ + 1]
  /\ UNCHANGED <<process_vars, player_ids, outputs_dir, results, summary,
                 trigger_vars, scraper_vars, import_vars>>

\* lines 31-40, 53-58, 62-67: the subprocess ends, the output file is opened for writing
OpenOutputFile(k) ==
  /\ step = "pool"
  /\ workers[k].at = "running"
  /\ \E outcome \in RunOutcomes(player_ids[k]) :
       workers' = [workers EXCEPT ![k] = [at |-> "writing", outcome |-> outcome]]
  /\ outputs_dir' = WithFile(outputs_dir, OutputFile(player_ids[k]), <<>>)
  /\ UNCHANGED <<process_vars, player_ids, launched, results, summary,
                 trigger_vars, scraper_vars, import_vars>>

\* lines 41-52, 59-61, 68-70: the text is written, the file closed, the result returned
WriteOutputFile(k) ==
  /\ step = "pool"
  /\ workers[k].at = "writing"
  /\ outputs_dir' = WithFile(outputs_dir, OutputFile(player_ids[k]),
                         Overlay(outputs_dir[OutputFile(player_ids[k])],
                                 FileText(player_ids[k], workers[k].outcome)))
  /\ workers' = [workers EXCEPT ![k].at = "returned"]
  /\ UNCHANGED <<process_vars, player_ids, launched, results, summary,
                 trigger_vars, scraper_vars, import_vars>>

\* lines 125-127: as_completed yields a future that is done
CollectResult(k) ==
  /\ step = "pool"
  /\ workers[k].at = "returned"
  /\ results' = Append(results, ResultOf(player_ids[k], workers[k].outcome))
  /\ workers' = [workers EXCEPT ![k].at = "collected"]
  /\ UNCHANGED <<process_vars, player_ids, outputs_dir, launched, summary,
                 trigger_vars, scraper_vars, import_vars>>

\* lines 81-84: the files of the directory the summary reads
IsOutputName(name) == StartsWith(name, ChessGames) /\ EndsWith(name, DotJson)

KeyOf(name) == Removed(Removed(name, ChessGames), DotJson)

\* lines 81-83
OutputNames(dir) == {name \in DOMAIN dir : IsOutputName(name)}

\* lines 89-94
SummaryEntry(file_text) ==
  LET loaded == JsonLoads(Strip(file_text))
  IN  IF loaded.ok THEN loaded.v
      ELSE PyDict(<< <<<<"r", "a", "w", "_", "o", "u", "t", "p", "u", "t">>, PyStr(Strip(file_text))>> >>)

\* the characters of file names in the order of their codes
CharOrder ==
  <<"-", ".">> \o Digits \o UpperCase \o <<"_">> \o LowerCase

Rank(c) == CHOOSE k \in 1..Len(CharOrder) : CharOrder[k] = c

\* a < b for two str
RECURSIVE Before(_, _)
Before(a, b) ==
  IF b = <<>> THEN FALSE
  ELSE IF a = <<>> THEN TRUE
  ELSE IF Head(a) = Head(b) THEN Before(Tail(a), Tail(b))
  ELSE Rank(Head(a)) < Rank(Head(b))

\* sorted(json_files)
RECURSIVE SortedNames(_)
SortedNames(names) ==
  IF names = {} THEN <<>>
  ELSE LET first == CHOOSE n \in names : \A m \in names \ {n} : Before(n, m)
       IN  <<first>> \o SortedNames(names \ {first})

\* lines 83-96: summary[player_id] = data, file by file
RECURSIVE Summarized(_, _, _)
Summarized(dir, names, acc) ==
  IF names = <<>> THEN acc
  ELSE Summarized(dir, Tail(names), Put(acc, KeyOf(Head(names)), SummaryEntry(dir[Head(names)])))

\* lines 74-96
SummaryOf(dir) == PyDict(Summarized(dir, SortedNames(OutputNames(dir)), <<>>))

\* lines 128-140: the pool is left when every worker has returned and every
\* result is collected; then create_summary
CreateSummary ==
  /\ program = "test_multi_ids.py"
  /\ step = "pool"
  /\ \A k \in DOMAIN workers : workers[k].at = "collected"
  /\ summary' = SummaryOf(outputs_dir)
  /\ outputs_dir' = WithFile(outputs_dir, SummaryJson, Dumps(SummaryOf(outputs_dir), Strict))
  /\ exit_status' = 0
  /\ step' = "exited"
  /\ UNCHANGED <<program, argv, stdout, stderr, player_ids, workers, launched, results,
                 trigger_vars, scraper_vars, import_vars>>

MultiNext ==
  \/ Main
  \/ \E k \in DOMAIN workers : StartWorker(k)
  \/ \E k \in DOMAIN workers : OpenOutputFile(k)
  \/ \E k \in DOMAIN workers : WriteOutputFile(k)
  \/ \E k \in DOMAIN workers : CollectResult(k)
  \/ CreateSummary

MultiInit ==
  /\ program = "test_multi_ids.py"
  /\ argv \in {<<argument>> : argument \in IdArguments}
  /\ step = "main"
  /\ exit_status = Running
  /\ stdout = <<>>
  /\ stderr = {}
  /\ player_ids = <<>>
  /\ outputs_dir \in {Directory(files) : files \in PriorOutputs}
  /\ workers = <<>>
  /\ launched = <<>>
  /\ results = <<>>
  /\ summary = None
  /\ NoTrigger
  /\ NoScraper
  /\ NoImport

SpecMulti == MultiInit /\ [][MultiNext]_vars

(***************************************************************************)
(* getimport.py run as a script (lines 233-245)                            *)
(***************************************************************************)
\* lines 234-243: the usage error, the blank text, or the call of
\* extract_players_from_text
GetimportMain ==
  /\ program = "getimport.py"
  /\ step = "main"
  /\ IF Len(argv) < 1
       THEN /\ stdout' = Append(stdout, Failure("Usage: python getimport.py <text>", NoError))
            /\ exit_status' = 1
            /\ step' = "exited"
            /\ UNCHANGED <<pc, result>>
       ELSE IF Strip(argv[1]) = <<>>
         THEN /\ result' = Failure("No input text provided", NoError)
              /\ step' = "print"
              /\ UNCHANGED <<pc, stdout, exit_status>>
         ELSE /\ pc' = "request"
              /\ step' = "called"
              /\ UNCHANGED <<result, stdout, exit_status>>
  /\ UNCHANGED <<program, argv, stderr, trigger_vars, scraper_vars, multi_vars>>
  /\ UNCHANGED <<backend, content, generated_text, attempt, parsed_by, last_error,
                 players, position, validated_players, seen_players, final_players,
                 final_seen, application, first_players>>

\* line 245, and the end of the script
GetimportPrint ==
  /\ program = "getimport.py"
  /\ \/ step = "print"
     \/ step = "called" /\ pc = "done"
  /\ stdout' = Append(stdout, result)
  /\ exit_status' = 0
  /\ step' = "exited"
  /\ UNCHANGED <<program, argv, stderr, trigger_vars, scraper_vars, multi_vars, import_vars>>

GetimportNext ==
  \/ GetimportMain
  \/ Request
  \/ CleanFences
  \/ IsolateArray
  \/ HandleIncomplete
  \/ ParseAttempt
  \/ CheckParsed
  \/ ValidateNext
  \/ DedupNext
  \/ Return
  \/ GetimportPrint

\* the script is started with its command line; the model's answer is drawn
\* when the command line leads to a request
GetimportInit ==
  /\ program = "getimport.py"
  /\ argv \in {<<>>, <<PlayerText>>, <<BlankText>>, << <<>> >>}
  /\ step = "main"
  /\ exit_status = Running
  /\ stdout = <<>>
  /\ stderr = {}
  /\ IF Len(argv) < 1 \/ Strip(argv[1]) = <<>>
       THEN backend = "ok" /\ content = <<>>
       ELSE \/ backend = "ok" /\ content \in RecoveryOutputs
            \/ backend \in BackendFailures /\ content = <<>>
  /\ generated_text = <<>>
  /\ pc = "idle"
  /\ attempt = 1
  /\ parsed_by = 0
  /\ last_error = NoError
  /\ players = None
  /\ position = 1
  /\ validated_players = <<>>
  /\ seen_players = {}
  /\ final_players = <<>>
  /\ final_seen = {}
  /\ result = NoResult
  /\ application = 1
  /\ first_players = <<>>
  /\ NoTrigger
  /\ NoScraper
  /\ NoMulti

(***************************************************************************)
(* The scripts that end on a fatal precondition: the two clients, the      *)
(* text import and the scraper                                             *)
(***************************************************************************)
ScriptsInit == TriggerInit \/ GetimportInit \/ ScraperInit

ScriptsNext == TriggerNext \/ GetimportNext \/ ScraperNext

SpecScripts == ScriptsInit /\ [][ScriptsNext]_vars

(***************************************************************************)
(* Claims about the normalization of the records (lines 126-223)           *)
(***************************************************************************)
\* the first application has returned data.players
Normalized == pc = "done" /\ application = 1 /\ backend = "ok" /\ result.success

\* the ratings written, each with: whether it is a number (true is the integer
\* 1) or a numeral, whether that number lies in [0,3000], and the integer int()
\* gives for it (None where int() raises)
RatingCases ==
  {[value |-> PyInt(1500), numeric |-> TRUE, in_range |-> TRUE, int |-> PyInt(1500)],
   [value |-> PyInt(0), numeric |-> TRUE, in_range |-> TRUE, int |-> PyInt(0)],
   [value |-> PyInt(3000), numeric |-> TRUE, in_range |-> TRUE, int |-> PyInt(3000)],
   [value |-> PyInt(3001), numeric |-> TRUE, in_range |-> FALSE, int |-> PyInt(3001)],
   [value |-> PyInt(-1), numeric |-> TRUE, in_range |-> FALSE, int |-> PyInt(-1)],
   [value |-> PyStr(<<"1", "5", "0", "0">>), numeric |-> TRUE, in_range |-> TRUE, int |-> PyInt(1500)],
   [value |-> PyStr(<<"a", "b", "c">>), numeric |-> FALSE, in_range |-> FALSE, int |-> None],
   [value |-> PyFloat(15007, <<"7">>), numeric |-> TRUE, in_range |-> TRUE, int |-> PyInt(1500)],
   [value |-> PyFloat(30009, <<"9">>), numeric |-> TRUE, in_range |-> FALSE, int |-> PyInt(3000)],
   [value |-> PyFloat(-5, <<"5">>), numeric |-> TRUE, in_range |-> FALSE, int |-> PyInt(0)],
   [value |-> None, numeric |-> FALSE, in_range |-> FALSE, int |-> None],
   [value |-> PyList(<<>>), numeric |-> FALSE, in_range |-> FALSE, int |-> None],
   [value |-> PyBool(TRUE), numeric |-> TRUE, in_range |-> TRUE, int |-> PyInt(1)]}

RatingCase(player) == CHOOSE c \in RatingCases : c.value = Get(player, k_rating)

\* the parsed list is one written for the rating
RatingInput ==
  \A k \in 1..Len(players.a) : players.a[k] \in FieldRecords(k, k_rating, RatingValues)

IsRating(v) == v = None \/ (v.t = "int" /\ v.n >= 0 /\ v.n <= 3000)

\* C1 as stated: every rating of data.players is null or an integer in
\* [0,3000]; an input rating that is no number, or a number outside [0,3000],
\* gives null, and its record is still in data.players.
C1_BadRatingBecomesNull ==
  Normalized =>
    /\ \A j \in 1..Len(result.players) : IsRating(result.players[j].rating)
    /\ RatingInput =>
         /\ Len(result.players) = Len(players.a)
         /\ \A k \in 1..Len(players.a) :
              /\ result.players[k].name = Get(players.a[k], k_name)
              /\ (~RatingCase(players.a[k]).numeric \/ ~RatingCase(players.a[k]).in_range)
                   => result.players[k].rating = None

\* C1 as the code has it: every rating of data.players is null or an integer
\* in [0,3000]; the input rating is converted with int() first, and the result
\* is null when int() raises or the converted integer is outside [0,3000], the
\* converted integer otherwise; the record is in data.players either way.
C1_RatingIsCoercedThenRanged ==
  Normalized =>
    /\ \A j \in 1..Len(result.players) : IsRating(result.players[j].rating)
    /\ RatingInput =>
         /\ Len(result.players) = Len(players.a)
         /\ \A k \in 1..Len(players.a) :
              /\ result.players[k].name = Get(players.a[k], k_name)
              /\ result.players[k].rating =
                   IF IsRating(RatingCase(players.a[k]).int)
                     THEN RatingCase(players.a[k]).int ELSE None

\* a list with the ratings 3001 and "abc" has been normalized: both records
\* are in data.players with a null rating
C1_Witness ==
  /\ Normalized
  /\ Len(players.a) = 2
  /\ Get(players.a[1], k_rating) = PyInt(3001)
  /\ Get(players.a[2], k_rating) = PyStr(<<"a", "b", "c">>)
  /\ Len(result.players) = 2
  /\ result.players[1].rating = None
  /\ result.players[2].rating = None

\* C2: the record emitted for an input record whose uscf_id is "0", "00000",
\* "0000" or "" has uscf_id null, wherever the input record stands in the list.
C2_PlaceholderIdBecomesNull ==
  Normalized =>
    \A k \in 1..Len(players.a) : \A j \in 1..Len(result.players) :
      (/\ Get(players.a[k], k_uscf_id) \in Placeholders
       /\ result.players[j].name = Get(players.a[k], k_name))
        => result.players[j].uscf_id = None

PunctuationMarks == {".", ",", "-", "'"}

Unmarked(c) == c \notin PunctuationMarks

\* a name in lower case, its punctuation marks deleted, its white space made
\* single spaces
Unpunctuated(name) == Join(Split(SelectSeq(Lower(name), Unmarked)), <<" ">>)

\* the tokens of b are those of a in another order
Permuted(a, b) ==
  /\ Len(Split(a)) = Len(Split(b))
  /\ \E p \in Permutations(1..Len(Split(a))) :
       \A i \in 1..Len(Split(a)) : Split(b)[i] = Split(a)[p[i]]

\* C3: of two records without a USCF id whose names differ only in
\* punctuation, spacing or letter case, one is left after the first pass; of
\* two whose name tokens are a permutation of each other, one is left after the
\* second pass; data.players holds exactly one record of the pair.
C3_NearDuplicateNamesCollapse ==
  (/\ Normalized
   /\ Len(players.a) = 2
   /\ players.a[1] \in NameRecords
   /\ players.a[2] \in NameRecords
   /\ players.a[1] # players.a[2]) =>
    /\ Unpunctuated(Get(players.a[1], k_name).s) = Unpunctuated(Get(players.a[2], k_name).s)
         => Len(validated_players) = 1 /\ Len(result.players) = 1
    /\ Permuted(Get(players.a[1], k_name).s, Get(players.a[2], k_name).s)
         => Len(result.players) = 1

\* C4: the normalization applied to the data.players it produced returns the
\* same list: the same records in the same order with the same value in every
\* field.
C4_NormalizationIsIdempotent ==
  (pc = "done" /\ application = 2) => result.success /\ result.players = first_players

(***************************************************************************)
(* Claims about the recovery of the array (lines 77-121)                   *)
(***************************************************************************)
Returned == pc = "done" /\ application = 1 /\ backend = "ok"

RepairableCases == {c \in WholeCases : c.style \in RepairableStyles}

\* C5: every output that holds a whole JSON array, in a code fence or in prose,
\* with bare keys or trailing commas, is returned as that array's parsed
\* content; every output with no '[' at all is reported as a failure.
C5_EveryWholeArrayIsRecovered ==
  Returned =>
    /\ \A c \in RepairableCases : c.text = content => result.success /\ players = c.array
    /\ Find(content, "[") = -1 => ~result.success

\* C6: an array cut off after k >= 1 whole objects is returned as exactly those
\* k objects, also when the whole objects hold arrays of their own.
C6_TruncatedArrayKeepsWholeObjects ==
  Returned =>
    \A c \in TruncatedCases :
      c.text = content => result.success /\ players = PyList(c.complete)

\* C7: the attempts run in their order and the first that parses gives the
\* result, no later one being run; when all six fail the failure carries the
\* error of the sixth; a parsed value that is no list is answered with
\* 'Response is not a JSON array'.
C7_FirstParseWinsAndFailuresAreReported ==
  /\ (pc = "check" /\ parsed_by > 0) =>
       /\ attempt = parsed_by
       /\ \A k \in 1..(parsed_by - 1) : ~parse_attempts(k, generated_text).ok
       /\ \E r \in {parse_attempts(parsed_by, generated_text)} : r.ok /\ players = r.v
  /\ (Returned /\ parsed_by = 0) =>
       \E r \in {parse_attempts(NumAttempts, generated_text)} :
         result = Failure("Failed to parse JSON. Last error: ", [msg |-> r.msg, pos |-> r.pos])
  /\ (Returned /\ parsed_by > 0 /\ players.t # "list") =>
       result = Failure("Response is not a JSON array", NoError)

\* the parsed list is one written for the name
NameInput == \A k \in 1..Len(players.a) : players.a[k] \in ElementsAt(k)

\* the name the element at position k is to be emitted with, <<>> for an
\* element that is to be dropped
ExpectedName(k) ==
  CASE players.a[k] \in NonObjects \cup UnnamedRecords -> <<>>
    [] players.a[k] = PyDict(<< <<k_name, PyInt(10 + k)>> >>) -> NatStr(10 + k)
    [] OTHER -> NameAt(k)

IsEmitted(name) == name # <<>>

\* C11: an element that is no object, or whose name is missing, null, empty or
\* white space only, gives no record; the records of data.players are those
\* of the other elements, in their order, each with its name trimmed; every
\* name of data.players is a non-empty text that neither starts nor ends with
\* white space.
C11_UnnamedElementsAreDropped ==
  Normalized =>
    /\ \A j \in 1..Len(result.players) :
         /\ result.players[j].name.t = "str"
         /\ result.players[j].name.s # <<>>
         /\ Head(result.players[j].name.s) \notin Whitespace
         /\ result.players[j].name.s[Len(result.players[j].name.s)] \notin Whitespace
    /\ NameInput =>
         [j \in 1..Len(result.players) |-> result.players[j].name.s]
           = SelectSeq([k \in 1..Len(players.a) |-> ExpectedName(k)], IsEmitted)

\* a list of a white-space-only name and a padded name has been normalized:
\* one record, with the trimmed name
C11_Witness ==
  /\ Normalized
  /\ Len(players.a) = 2
  /\ players.a[1] = PyDict(<<<<<<"n", "a", "m", "e">>, PyStr(<<" ", " ">>)>>>>)
  /\ players.a[2] = Named(<<" ">> \o NameAt(2) \o <<" ">>)
  /\ Len(result.players) = 1
  /\ result.players[1].name = PyStr(NameAt(2))

\* the places of the function; an exception has none of its own: lines
\* 225-230 turn it into a returned value
Steps ==
  {"request", "fences", "isolate", "incomplete", "parse", "check", "validate", "dedup",
   "return", "done"}

\* the function has returned, whatever the backend did
HasReturned == pc = "done" /\ application = 1

\* the two shapes of the returned value
IsSuccessShape(r) ==
  /\ r.success
  /\ r.count = Len(r.players)
  /\ r.error = [msg |-> "", last |-> NoError]

IsFailureShape(r) ==
  /\ ~r.success
  /\ r.error.msg # ""
  /\ r.players = <<>>

\* C20: extract_players_from_text never raises: whatever the backend does (no
\* connection, timeout, error status, malformed body) and whatever the model
\* writes, an exception of any step ends the call with a returned value, and
\* the value returned is {success: true, data} with count the length of
\* players, or {success: false, error} with a non-empty message, never both.
C20_AlwaysOneOfTwoShapes ==
  /\ pc \in Steps
  /\ (pc # "done" => result = NoResult)
  /\ (HasReturned => IsSuccessShape(result) # IsFailureShape(result))

\* a success has been returned from which a duplicate was removed
C20_Witness ==
  /\ HasReturned
  /\ result.success
  /\ result.duplicatesRemoved > 0
  /\ result.count = Len(result.players)

\* failures have been returned: of the backend, of the parse
C20_BackendFailureReturned ==
  HasReturned /\ backend = "JSONDecodeError" /\ IsFailureShape(result)

C20_ParseFailureReturned ==
  HasReturned /\ backend = "ok" /\ IsFailureShape(result)

(***************************************************************************)
(* Claims about the fields byes, grade and status (lines 149-178)          *)
(***************************************************************************)
\* the text s is a comma-joined list of positive integers, each greater than
\* the one before it
SortedRounds(s) ==
  LET parts == SplitOn(s, ",")
  IN  /\ \A i \in 1..Len(parts) : IsDigit(parts[i]) /\ DigitsVal(parts[i], 0) > 0
      /\ \A i \in 1..(Len(parts) - 1) : DigitsVal(parts[i], 0) < DigitsVal(parts[i + 1], 0)

\* C8: every intentional_bye_rounds of data.players is null or the comma-joined
\* text of strictly positive integers in ascending order without repeats.
C8_ByeRoundsAreSortedAndDistinct ==
  Normalized =>
    \A j \in 1..Len(result.players) :
      \/ result.players[j].intentional_bye_rounds = None
      \/ /\ result.players[j].intentional_bye_rounds.t = "str"
         /\ SortedRounds(result.players[j].intentional_bye_rounds.s)

\* the parsed list is one written for the grade
GradeInput ==
  \A k \in 1..Len(players.a) : players.a[k] \in FieldRecords(k, k_grade, GradeValues)

\* C9: every grade of data.players is null or an integer in [1,12], and the
\* record of a grade that gives null is still in data.players.
C9_GradeIsNullOrInRange ==
  Normalized =>
    /\ \A j \in 1..Len(result.players) :
         \/ result.players[j].grade = None
         \/ /\ result.players[j].grade.t = "int"
            /\ result.players[j].grade.n >= 1
            /\ result.players[j].grade.n <= 12
    /\ GradeInput => Len(result.players) = Len(players.a)

Statuses == {PyStr(<<"a", "c", "t", "i", "v", "e">>), PyStr(<<"w", "i", "t", "h", "d", "r", "a", "w", "n">>), PyStr(<<"b", "y", "e">>)}

\* the parsed list is one written for the status
StatusInput ==
  \A k \in 1..Len(players.a) : players.a[k] \in FieldRecords(k, k_status, StatusValues)

\* C10: every status of data.players is active, withdrawn or bye; it is the
\* input status when that is one of the three and active otherwise (the key
\* missing, null, another value).
C10_StatusIsOneOfThree ==
  Normalized =>
    /\ \A j \in 1..Len(result.players) : result.players[j].status \in Statuses
    /\ StatusInput =>
         /\ Len(result.players) = Len(players.a)
         /\ \A k \in 1..Len(players.a) :
              result.players[k].status =
                IF Get(players.a[k], k_status) \in Statuses
                  THEN Get(players.a[k], k_status) ELSE Active

(***************************************************************************)
(* Claims about the remote-trigger clients                                 *)
(***************************************************************************)
\* a turn of the poll after which the poll goes on
NonTerminalPoll ==
  /\ step = "poll"
  /\ step' = "poll"
  /\ status_requests' = status_requests + 1

\* C19: the poll of both clients always ends. elapsed is 0 when the poll
\* starts, grows by 5 on every turn that does not end the poll and on no
\* other step, so that elapsed is 5 times the number of status requests sent
\* and at most 120 are sent, whatever the server answers; and a client whose
\* elapsed has reached 600 returns None and exits with status 1.
C19_PollTerminates ==
  /\ <>(step = "exited")
  /\ [][elapsed' = IF NonTerminalPoll THEN elapsed + 5 ELSE elapsed]_vars
  /\ [](step = "poll" => elapsed = 5 * status_requests)
  /\ [](status_requests <= 120)
  /\ [](elapsed <= 600)
  /\ [](elapsed = 600 /\ step \in {"finish", "exited"} => trigger_result = None)
  /\ [](elapsed = 600 /\ step = "exited" => exit_status = 1 /\ stdout = <<>>)

\* a client has polled 120 times without seeing a completed run and has exited
C19_Witness ==
  /\ step = "exited"
  /\ elapsed = 600
  /\ status_requests = 120
  /\ "Timeout waiting for workflow to complete" \in stderr
  /\ trigger_result = None
  /\ exit_status = 1

(***************************************************************************)
(* Claims about the scraper                                                *)
(***************************************************************************)
\* the scraper has ended with exit status 0
ScraperSucceeded == program = "m.py" /\ step = "exited" /\ exit_status = 0

\* {player: {name, uscf_id, rating}, games: {...}}
IsOutputShape(document) ==
  /\ DOMAIN document = {"player", "games"}
  /\ DOMAIN document.player = {"name", "uscf_id", "rating"}

\* C13: when the scraper ends with exit status 0 it has printed exactly one
\* document {player: {name, uscf_id, rating}, games} to stdout, whatever the
\* year table holds: no row, only rows that are skipped or fail, or several
\* rows that succeed.
C13_ExactlyOneDocument ==
  ScraperSucceeded => Len(stdout) = 1 /\ IsOutputShape(stdout[1])

\* the units whose games table opens
OpenedUnits ==
  {k \in 1..Len(page.year_rows) :
     /\ IsDigit(Strip(page.year_rows[k].year_text))
     /\ page.year_rows[k].button = "ok"
     /\ page.year_rows[k].table = "found"}

\* the number of games the rows of a games table hold
RECURSIVE GamesIn(_)
GamesIn(game_rows) ==
  IF game_rows = <<>> THEN 0
  ELSE (IF game_rows[1].cells >= 6 /\ ~game_rows[1].raises
           /\ game_rows[1].result \notin {<<"R", "e", "s", "u", "l", "t">>, <<" ">>}
          THEN 1 ELSE 0) + GamesIn(Tail(game_rows))

\* the sum of f over a set of numbers
RECURSIVE Sum(_, _)
Sum(f, set) ==
  IF set = {} THEN 0
  ELSE LET k == CHOOSE k \in set : TRUE IN f[k] + Sum(f, set \ {k})

\* the years found in the games of a document
YearsOf(document) == {document.games[key].year : key \in DOMAIN document.games}

\* C14: the document the scraper prints holds the games of every year unit
\* that was extracted without failure: when the games tables of several year
\* rows open, the games of all those years are in the one games map, and the
\* browser stays open until the last year unit has been processed.
C14_AllYearsAreMerged ==
  /\ ScraperSucceeded /\ OpenedUnits # {} =>
       /\ stdout # <<>>
       /\ Cardinality(DOMAIN stdout[Len(stdout)].games)
            = Sum([k \in 1..Len(page.year_rows) |-> GamesIn(page.year_rows[k].game_rows)],
                  OpenedUnits)
       /\ YearsOf(stdout[Len(stdout)])
            = {PyStr(Strip(page.year_rows[k].year_text)) :
                 k \in {u \in OpenedUnits : GamesIn(page.year_rows[u].game_rows) > 0}}
  /\ program = "m.py" /\ step \in {"year", "rows"} /\ year_idx <= Len(page.year_rows) =>
       browser = "open"

\* the unit at year_idx has a year and fails: no games button, an error of
\* the click, no games table, or an exception while it is processed
UnitFails ==
  /\ program = "m.py"
  /\ step = "year"
  /\ year_idx <= Len(page.year_rows)
  /\ \/ browser = "closed"
     \/ /\ IsDigit(Strip(page.year_rows[year_idx].year_text))
        /\ \/ page.year_rows[year_idx].button # "ok"
           \/ page.year_rows[year_idx].table # "found"

\* the games of a document in the order of their keys
GamesOf(document) ==
  [idx \in 1..Cardinality(DOMAIN document.games) |-> document.games[NatStr(idx)]]

\* C15: a year unit that fails gives no game, raises nothing and does not
\* end the run: the step that handles it leaves all_games and stdout as
\* they are, does not exit and goes on with the next unit; the script ends
\* only after the last unit; and the games collected so far are those of the
\* last document printed.
C15_FailingUnitIsIsolated ==
  /\ [][UnitFails =>
          /\ all_games' = all_games
          /\ stdout' = stdout
          /\ exit_status' = Running
          /\ step' = "year"
          /\ year_idx' = year_idx + 1]_vars
  /\ [](ScraperSucceeded => year_idx = Len(page.year_rows) + 1)
  /\ [](program = "m.py" /\ step \in {"year", "exited"} /\ all_games # <<>> =>
          stdout # <<>> /\ GamesOf(stdout[Len(stdout)]) = all_games)

\* a unit without a games button was followed by a unit whose games were
\* collected and printed
C15_Witness ==
  /\ ScraperSucceeded
  /\ Len(page.year_rows) >= 2
  /\ page.year_rows[1].button = "missing"
  /\ 2 \in OpenedUnits
  /\ all_games # <<>>
  /\ Len(stdout) = 1
  /\ GamesOf(stdout[1]) = all_games

\* a row of a games table that gives a game
IsGameRow(game_row) ==
  /\ game_row.cells >= 6
  /\ ~game_row.raises
  /\ game_row.result \notin {<<"R", "e", "s", "u", "l", "t">>, <<" ">>}

\* C16: in every document printed the keys of games are exactly "1", ..., "n"
\* for the n games collected, key i holding the i-th of them; a game that is
\* collected is appended, whatever games are there already, and a game once
\* collected is never changed or removed.
C16_GamesAreNumberedInOrder ==
  /\ [](\A d \in 1..Len(stdout) :
          /\ DOMAIN stdout[d].games = {NatStr(i) : i \in 1..Len(all_games)}
          /\ Cardinality(DOMAIN stdout[d].games) = Len(all_games)
          /\ \A i \in 1..Len(all_games) : stdout[d].games[NatStr(i)] = all_games[i])
  /\ [][/\ Len(all_games') >= Len(all_games)
        /\ SubSeq(all_games', 1, Len(all_games)) = all_games
        /\ (step = "rows" /\ row_idx <= Len(page.year_rows[year_idx].game_rows)
              /\ IsGameRow(page.year_rows[year_idx].game_rows[row_idx])
              => Len(all_games') = Len(all_games) + 1)]_vars

\* a document with two games that are equal has been printed
C16_Witness ==
  /\ ScraperSucceeded
  /\ Len(stdout) = 1
  /\ DOMAIN stdout[1].games = {<<"1">>, <<"2">>}
  /\ stdout[1].games[<<"1">>] = stdout[1].games[<<"2">>]
  /\ Len(all_games) = 2

(***************************************************************************)
(* Claims about test_multi_ids.py                                          *)
(***************************************************************************)
\* the positions of player_ids that hold the id
PositionsOf(id) == {k \in 1..Len(player_ids) : player_ids[k] = id}

\* the run of test_multi_ids.py is over
MultiDone == program = "test_multi_ids.py" /\ step = "exited"

\* an error JSON that names the id
IsErrorFor(file_text, id) ==
  /\ JsonLoads(file_text).ok
  /\ HasKey(JsonLoads(file_text).v, <<"e", "r", "r", "o", "r">>)
  /\ Get(JsonLoads(file_text).v, <<"p", "l", "a", "y", "e", "r", "_", "i", "d">>) = PyStr(id)

\* C17: for every element of the list of ids at most one subprocess is ever
\* started, and when the run is over exactly one has been started and one
\* result {player_id, success, file} collected for it, whatever the other
\* workers did; the results that report success are as many as the
\* subprocesses of the id that ended with exit status 0; and the output file
\* of an id that is in the list once holds the stdout of its subprocess
\* after exit status 0 and an error JSON naming the id after a non-zero
\* exit, a timeout or an exception.
C17_OneSubprocessAndResultPerId ==
  /\ \A k \in DOMAIN launched : launched[k] <= 1
  /\ Len(results) <= Len(player_ids)
  /\ MultiDone =>
       /\ \A k \in DOMAIN launched : launched[k] = 1
       /\ Len(results) = Len(player_ids)
       /\ \A id \in {player_ids[k] : k \in 1..Len(player_ids)} :
            /\ Cardinality({j \in 1..Len(results) : results[j].player_id = id})
                 = Cardinality(PositionsOf(id))
            /\ \A j \in 1..Len(results) :
                 results[j].player_id = id => results[j].file = OutputFile(id)
            /\ Cardinality({j \in 1..Len(results) :
                              results[j].player_id = id /\ results[j].success})
                 = Cardinality({k \in PositionsOf(id) :
                                  workers[k].outcome.raised = ""
                                    /\ workers[k].outcome.returncode = 0})
            /\ OutputFile(id) \in DOMAIN outputs_dir
            /\ \A k \in PositionsOf(id) :
                 Cardinality(PositionsOf(id)) = 1 =>
                   IF workers[k].outcome.raised = "" /\ workers[k].outcome.returncode = 0
                     THEN outputs_dir[OutputFile(id)] = workers[k].outcome.stdout
                     ELSE IsErrorFor(outputs_dir[OutputFile(id)], id)

\* a run of two ids is over in which one subprocess timed out and the other
\* ended with exit status 0
C17_Witness ==
  /\ MultiDone
  /\ Len(player_ids) = 2
  /\ player_ids[1] # player_ids[2]
  /\ workers[1].outcome.raised = "TimeoutExpired"
  /\ workers[2].outcome.raised = "" /\ workers[2].outcome.returncode = 0
  /\ workers[2].outcome.stdout # <<>>
  /\ Len(results) = 2
  /\ \E j \in 1..2 : results[j].success /\ results[j].player_id = player_ids[2]
  /\ outputs_dir[OutputFile(player_ids[2])] = workers[2].outcome.stdout

\* the keys of a dict
Keys(d) == {d.o[k][1] : k \in 1..Len(d.o)}

\* C18: summary.json is written only after every worker has finished, and
\* its keys are exactly the ids processed in this run, each with the parsed
\* text of its output file, or with the raw text when that is no JSON,
\* whatever outputs/ held before and however the workers interleave.
C18_SummaryHoldsTheIdsOfTheRun ==
  /\ summary # None =>
       \A k \in DOMAIN workers : workers[k].at = "collected"
  /\ MultiDone =>
       /\ Keys(summary) = {player_ids[k] : k \in 1..Len(player_ids)}
       /\ \A id \in Keys(summary) :
            /\ OutputFile(id) \in DOMAIN outputs_dir
            /\ Get(summary, id) =
                 IF JsonLoads(Strip(outputs_dir[OutputFile(id)])).ok
                   THEN JsonLoads(Strip(outputs_dir[OutputFile(id)])).v
                   ELSE PyDict(<< <<<<"r", "a", "w", "_", "o", "u", "t", "p", "u", "t">>,
                                    PyStr(Strip(outputs_dir[OutputFile(id)]))>> >>)

(***************************************************************************)
(* Claims about the fatal preconditions of the scripts                     *)
(***************************************************************************)
\* the command line gives no text: no argument, or a blank one (for
\* trigger_getimport.py also a file whose text is blank)
NoInputText ==
  \/ Len(argv) < 1
  \/ argv[1] \notin {DashF, DashFile} /\ Strip(argv[1]) = <<>>
  \/ /\ program = "trigger_getimport.py"
     /\ argv[1] \in {DashF, DashFile}
     /\ Len(argv) >= 2
     /\ Files[argv[2]].raised = ""
     /\ Strip(Files[argv[2]].read) = <<>>

\* a message has been written on one of the two streams
Diagnosed == stderr # {} \/ stdout # <<>>

\* C12: a script that has ended after a fatal precondition failed has a
\* non-zero exit status and has written a diagnostic message: a client
\* started without GITHUB_TOKEN, getimport.py and trigger_getimport.py
\* started without input text, and m.py when the page has no year table.
C12_FatalPreconditionsExitNonZero ==
  step = "exited" =>
    /\ program \in TriggerClients /\ GITHUB_TOKEN = "" =>
         exit_status # 0 /\ Diagnosed
    /\ program \in {"getimport.py", "trigger_getimport.py"} /\ NoInputText =>
         exit_status # 0 /\ Diagnosed
    /\ program = "m.py" /\ page.load = "ok" /\ ~page.tbody =>
         exit_status # 0 /\ "No year statistics table found." \in stderr

(***************************************************************************)
(* Claims about the final deduplication (lines 196-208)                    *)
(***************************************************************************)
\* a name in lower case with '.' and ',' made spaces
Spaced(name) ==
  [i \in 1..Len(name) |-> IF name[i] \in {".", ","} THEN " " ELSE Lower(name)[i]]

\* the record is one of data.players
IsKept(player) == \E j \in 1..Len(result.players) : result.players[j] = player

\* C25: a record that passed the first pass is missing from data.players only
\* when a record of data.players has the same USCF id (or both have none) and
\* the tokens of the two names are a permutation of each other; so "J Smith"
\* and "K Smith", and "A B" and "C D", written without USCF ids, are both in
\* data.players.
C25_SecondPassRemovesOnlyPermutations ==
  Normalized =>
    \A k \in 1..Len(validated_players) :
      ~IsKept(validated_players[k]) =>
        \E j \in 1..Len(result.players) :
          /\ result.players[j].uscf_id = validated_players[k].uscf_id
          /\ Permuted(Spaced(result.players[j].name.s),
                      Spaced(validated_players[k].name.s))

\* the parsed list is one written for the byes
ByesInput ==
  \A k \in 1..Len(players.a) : players.a[k] \in FieldRecords(k, k_byes, ByesValues)

\* the byes of the record are an object
HasObjectByes(player) == HasKey(player, k_byes) /\ Get(player, k_byes).t = "dict"

\* C26: when a record of the parsed list has an object for its byes, the
\* function returns success with every record of the list in data.players,
\* the record of the object with intentional_bye_rounds null.
C26_MalformedByesAffectsOneRecord ==
  (/\ Returned
   /\ players # None
   /\ ByesInput
   /\ \E k \in 1..Len(players.a) : HasObjectByes(players.a[k])) =>
    /\ result.success
    /\ Len(result.players) = Len(players.a)
    /\ \A k \in 1..Len(players.a) :
         /\ result.players[k].name = Get(players.a[k], k_name)
         /\ HasObjectByes(players.a[k]) =>
              result.players[k].intentional_bye_rounds = None

(***************************************************************************)
(* Claims about the games of the scraper                                   *)
(***************************************************************************)
\* null, or an integer in [100,3000]
IsOpponentRating(v) == v = None \/ (v.t = "int" /\ v.n >= 100 /\ v.n <= 3000)

\* the opponent's rows, each with the rating the rule gives for it: the
\* first token of 3 or 4 digits of the row when it is in [100,3000],
\* otherwise the first token of the first cell whose first token is
\* in [100,3000], otherwise null
RatingCasesOfRows ==
  {[cells |-> <<<<"1">>, <<"A", "l", " ", "R", "o", "e">>, <<"1", "5", "0", "0">>>>, rating |-> PyInt(1500)],
   [cells |-> <<<<"1", "2">>, <<"B", "o", " ", "L", "e", "e", " ", "1", "2", "3", "4", "5", "6", "7", "8">>, <<"3", "0", "0", "1">>, <<"1", "4", "5", "0">>>>, rating |-> PyInt(1450)],
   [cells |-> <<<<"0", "9", "9">>, <<"W", " ", "5">>>>, rating |-> None],
   [cells |-> <<<<"0", "0", "5", "0", " ", "1", "5", "0", "0">>>>, rating |-> None],
   [cells |-> <<<<"R", "1", "5", "0", "0">>, <<"1", "0", "0">>>>, rating |-> PyInt(100)],
   [cells |-> <<<<"1", "2", "3", "4", "5">>, <<"3", "0", "0", "0">>>>, rating |-> PyInt(3000)],
   [cells |-> <<<<"9", "9", "9", "9">>, <<"x", " ", "9", "9", "9", " ", "y">>>>, rating |-> PyInt(999)],
   [cells |-> <<<<"n", "o", " ", "r", "a", "t", "i", "n", "g">>>>, rating |-> None]}

\* the rating of the game of a row: null when there is no lookup, when the
\* tournament page does not open and when the opponent's row is not found
\* or not read
ExpectedRating(tournament) ==
  IF tournament.lookup /\ tournament.opened = "ok" /\ tournament.row = "found"
    THEN (CHOOSE c \in RatingCasesOfRows : c.cells = tournament.cells_in_row).rating
    ELSE None

\* C22: the opponent_rating of every game collected and of every game printed
\* is null or an integer in [100,3000]; a row that gives a game appends one
\* game whose opponent_rating is the first token of 3 or 4 digits of the
\* opponent's row when that is in [100,3000], else the first token of the
\* first cell whose first token is in [100,3000], and null when there is
\* none or the tournament page is not opened or not read: the game is
\* collected in each of these cases.
C22_OpponentRatingIsNullOrInRange ==
  /\ [](\A i \in 1..Len(all_games) : IsOpponentRating(all_games[i].opponent_rating))
  /\ [](\A d \in 1..Len(stdout) : \A key \in DOMAIN stdout[d].games :
          IsOpponentRating(stdout[d].games[key].opponent_rating))
  /\ [][(step = "rows" /\ row_idx <= Len(page.year_rows[year_idx].game_rows)
           /\ IsGameRow(page.year_rows[year_idx].game_rows[row_idx]))
          => /\ Len(all_games') = Len(all_games) + 1
             /\ all_games'[Len(all_games')].opponent_rating =
                  ExpectedRating(page.year_rows[year_idx].game_rows[row_idx].tournament)]_vars

\* a document has been printed whose game has the rating 1450, found in the
\* fourth cell of a row whose first token, 3001, is out of range
C22_Witness ==
  /\ ScraperSucceeded
  /\ Len(stdout) = 1
  /\ Len(all_games) = 1
  /\ page.year_rows[1].game_rows[1].tournament.cells_in_row
       = <<<<"1", "2">>, <<"B", "o", " ", "L", "e", "e", " ", "1", "2", "3", "4", "5", "6", "7", "8">>, <<"3", "0", "0", "1">>, <<"1", "4", "5", "0">>>>
  /\ stdout[1].games[<<"1">>].opponent_rating = PyInt(1450)

\* a row of the games table is about to be read
RowTurn == step = "rows" /\ row_idx <= Len(page.year_rows[year_idx].game_rows)

\* fewer than 6 cells, or a result cell that is "Result", "Year" or empty
\* once trimmed
IsNonData(game_row) ==
  \/ game_row.cells < 6
  \/ Strip(game_row.result) \in {<<"R", "e", "s", "u", "l", "t">>, <<"Y", "e", "a", "r">>, <<>>}

\* one game is appended: its result is the trimmed text of the result cell,
\* its round is null and its year is that of the year row being processed
YieldsOneGame(game_row) ==
  /\ Len(all_games') = Len(all_games) + 1
  /\ SubSeq(all_games', 1, Len(all_games)) = all_games
  /\ all_games'[Len(all_games')].result = Strip(game_row.result)
  /\ all_games'[Len(all_games')].round = None
  /\ all_games'[Len(all_games')].year = PyStr(Strip(page.year_rows[year_idx].year_text))

ListsSuccess(answer) ==
  /\ answer.status_code = 200
  /\ answer.workflow_runs # <<>>
  /\ answer.workflow_runs[1].status = "completed"
  /\ answer.workflow_runs[1].conclusion = "success"

\* the artifact list was answered 200 with an artifact of the expected name,
\* and its archive was downloaded and holds JSON that parses
HoldsJson(answer) ==
  /\ answer.status_code = 200
  /\ answer.named
  /\ answer.download = 200
  /\ answer.parsed

\* the function has returned
TriggerReturned == step \in {"finish", "exited"}

\* C23: a payload is returned only when the token is set, the dispatch was
\* answered 204, a poll was answered 200 with a run that is completed with
\* the conclusion success, and the artifact list was answered 200 with an
\* artifact of the expected name whose archive holds JSON that parses, the
\* payload; every other answer is followed by the return of None and by no
\* further request (only a poll answered 200 with no completed run is
\* followed by another poll); and without a token no request is sent.
C23_PayloadOnlyAlongTheSuccessPath ==
  /\ [](trigger_result # None =>
          /\ TriggerReturned
          /\ GITHUB_TOKEN # ""
          /\ sent = [dispatches |-> 1, artifact_lists |-> 1, downloads |-> 1]
          /\ ListsSuccess(response)
          /\ HoldsJson(artifact_response)
          /\ trigger_result = artifact_response.json)
  /\ [](GITHUB_TOKEN = "" => sent = NoneSent /\ status_requests = 0 /\ trigger_result = None)
  /\ [](sent.dispatches <= 1 /\ sent.artifact_lists <= 1 /\ sent.downloads <= 1)
  /\ [][/\ step = "dispatch" =>
             /\ sent'.dispatches = 1
             /\ IF response'.status_code = 204
                  THEN step' = "poll"
                  ELSE step' = "finish" /\ trigger_result' = None
        /\ step' = "poll" => step \in {"dispatch", "poll"}
        /\ (step = "poll" /\ step' = "poll") =>
             /\ response'.status_code = 200
             /\ ~ListsSuccess(response')
             /\ status_requests' = status_requests + 1
        /\ (step = "poll" /\ step' = "finish") => trigger_result' = None
        /\ step' = "artifact" => step = "poll" /\ ListsSuccess(response')
        /\ step = "artifact" =>
             /\ step' = "finish"
             /\ trigger_result' # None => HoldsJson(artifact_response')
        /\ TriggerReturned =>
             /\ sent' = sent
             /\ status_requests' = status_requests
             /\ trigger_result' = trigger_result]_vars

\* a client has printed the payload of a run that was polled more than once
C23_Witness ==
  /\ step = "exited"
  /\ exit_status = 0
  /\ trigger_result # None
  /\ Len(stdout) = 1
  /\ stdout[1] = trigger_result
  /\ status_requests >= 2
  /\ HoldsJson(artifact_response)

\* C24: the payload a client returns is the artifact of the run its own
\* dispatch created, whatever runs of earlier or later dispatches of the
\* workflow the list of runs shows.
C24_PayloadIsOfTheOwnRun ==
  trigger_result # None => run_id = OwnRun

====
